---- MODULE Spec2Model ----
(***************************************************************************)
(* State-machine model of the simulation stepper of                        *)
(* AlphaDataCenterCooling (src/testcase.py, class TestCase) and of the     *)
(* calls the REST gateway (src/restapi.py) makes on it.                    *)
(*                                                                         *)
(* Units.  Times are seconds.  Temperatures are kept in hundredths of a    *)
(* kelvin (286.55 K is 28655) and the cooling-water mass flow in           *)
(* thousandths, so that the arithmetic of __calc_Mcw stays in the          *)
(* integers.  Python values that can be a number, a string or None are     *)
(* tagged records (Num, Str, None).                                        *)
(***************************************************************************)
EXTENDS Integers, Sequences, FiniteSets, TLC

\* ------------------------------------------------------------------------
\* Bounds of the model
\* ------------------------------------------------------------------------
\* index of the last row of Resources/Disturbance.csv (one row per 300 s)
LastDisturbanceRow == 1
\* number of rows of Resources/Initialization_actions.csv
NumActionRows == 3
\* advance is not called once the clock is past this many base intervals
MaxAdvanceStart == 1

\* ------------------------------------------------------------------------
\* Program constants
\* ------------------------------------------------------------------------
sim_interval == 300
MAX_HORIZON == 30099300
DefaultStep == 300
DefaultTchwsSet == 28655
fmu_default_start == 0

\* ------------------------------------------------------------------------
\* Python values
\* ------------------------------------------------------------------------
Num(n) == [t |-> "num", v |-> n, s |-> ""]
Str(x) == [t |-> "str", v |-> 0, s |-> x]
None == [t |-> "none", v |-> 0, s |-> ""]
EmptyList == [t |-> "list", v |-> 0, s |-> ""]
\* marks a parameter the caller left out
Absent == [t |-> "absent", v |-> 0, s |-> ""]

\* the strings of the model that float() can parse, with their values
NumericStrings == {"0", "1", "300", "600", "900"}

ParseFloat(x) ==
  CASE x = "0" -> 0
    [] x = "1" -> 1
    [] x = "300" -> 300
    [] x = "600" -> 600
    [] x = "900" -> 900
    [] OTHER -> 0

\* float(x): ok says whether the conversion succeeds, val is its result
ToFloat(x) ==
  CASE x.t = "num" -> [ok |-> TRUE, val |-> x.v]
    [] x.t = "str" -> [ok |-> x.s \in NumericStrings, val |-> ParseFloat(x.s)]
    [] OTHER -> [ok |-> FALSE, val |-> 0]

\* ------------------------------------------------------------------------
\* Channels of the FMU (model description) and of the stepper
\* ------------------------------------------------------------------------
ChillerChannels == <<"CHI01", "CHI02", "CHI03", "CHI04", "CHI05", "CHI06">>
HeatExchangerChannels ==
  <<"CHI01_CW3", "CHI02_CW3", "CHI03_CW3", "CHI04_CW3", "CHI05_CW3", "CHI06_CW3">>
CoolingTowerChannels == <<"U_CT1", "U_CT2", "U_CT3", "U_CT4", "U_CT5", "U_CT6">>
PchiChannels == <<"Pchi1", "Pchi2", "Pchi3", "Pchi4", "Pchi5", "Pchi6">>

Range(f) == {f[i] : i \in DOMAIN f}

\* the element of a one-element set; The({e(x) : x \in {d}}) is e(d) with d
\* computed once
The(S) == CHOOSE x \in S : TRUE

disturbance_var == <<"Twb_outside", "Mchw", "Tchw_r">>

\* the channel lists as sets
DisturbanceNames == Range(disturbance_var)
PchiNames == Range(PchiChannels)

output_names == PchiNames \cup {"P_CDWPs_sum"}

\* the staging channels among the inputs of the FMU that the model keeps
StagingInputs == <<"CHI01", "CHI02", "CHI01_CW3", "U_CT1">>

input_names ==
  Range(StagingInputs)
    \cup {"Tchws_set_CHI", "CHWP01_rpm", "Head_required"}
    \cup DisturbanceNames

input_names_without_distubance ==
  (input_names \ DisturbanceNames) \ {"Head_required"}

\* keys of self.y / self.y_store and of self.u / self.u_store
YKeys == {"time"} \cup output_names
UKeys == {"time"} \cup input_names_without_distubance

\* list(set(self.input_names)): the iteration order of a set is arbitrary;
\* two orders stand for it, one with the disturbance channels first and one
\* with a control channel first
InputKeyOrders ==
  { disturbance_var \o <<"Head_required", "Tchws_set_CHI", "CHWP01_rpm">>
      \o StagingInputs,
    <<"CHWP01_rpm", "CHI01", "CHI02", "Tchws_set_CHI", "CHI01_CW3">>
      \o disturbance_var \o <<"U_CT1", "Head_required">> }

\* ------------------------------------------------------------------------
\* Read-only tables loaded by the constructor
\* ------------------------------------------------------------------------
DisturbanceTimes == {300 * r : r \in 0..LastDisturbanceRow}

disturbance_data ==
  [t \in DisturbanceTimes |->
     [key \in DisturbanceNames |->
        CASE key = "Twb_outside" -> 29000 + (t \div 300)
          [] key = "Mchw" -> 2000 + (t \div 300)
          [] OTHER -> 29155]]

initialization_actions ==
  [r \in 0..(NumActionRows - 1) |->
     [key \in input_names \ DisturbanceNames |->
        CASE key = "Tchws_set_CHI" -> DefaultTchwsSet
          [] key = "Head_required" -> 20 + r
          [] key = "CHWP01_rpm" -> 800 + r
          [] OTHER -> 1]]

\* Resources/Initialization_observation0.csv, row 0
initialization_obs0 ==
  [key \in YKeys \cup UKeys |->
     CASE key = "time" -> 0
       [] key = "Pchi1" -> 350000
       [] key = "P_CDWPs_sum" -> 42000
       [] key = "Tchws_set_CHI" -> DefaultTchwsSet
       [] OTHER -> 1]

\* ------------------------------------------------------------------------
\* The co-simulation engine (external): what a simulate call returns
\* ------------------------------------------------------------------------
\* final-sample chiller powers an engine run can produce
PowerSamples ==
  << [key \in PchiNames |-> 0],
     [key \in PchiNames |->
        CASE key = "Pchi1" -> 400000 [] key = "Pchi2" -> 251000 [] OTHER -> 0] >>

\* res[key][-1] of a successful run that stopped at stop: the outputs of the
\* power sample pw, and for every input the value the engine was given
\* (its start value 0 when it was given none)
EngineResult(stop, pw, given) ==
  [key \in {"time"} \cup output_names \cup input_names |->
     CASE key = "time" -> stop
       [] key \in PchiNames -> PowerSamples[pw][key]
       [] key = "P_CDWPs_sum" -> 7000 * pw
       [] OTHER -> IF key \in DOMAIN given THEN given[key] ELSE 0]

\* outcome of the engine during one sub-step: whether the first attempt and
\* the retry succeed, and the power sample of the successful run
EngineOutcomes == [first : BOOLEAN, retry : BOOLEAN, pw : DOMAIN PowerSamples]

\* the value each channel of u_list is given by a (u_list, trajectory) input
\* object; the trajectory starts with the timestamp
GivenByTrajectory(u_list, u_trajectory) ==
  [key \in Range(u_list) |->
     LET i == CHOOSE j \in DOMAIN u_list :
                /\ u_list[j] = key
                /\ \A k \in DOMAIN u_list : u_list[k] = key => k <= j
     IN u_trajectory[i + 1]]

\* ------------------------------------------------------------------------
\* State of the TestCase object
\* ------------------------------------------------------------------------
VARIABLES
  FMPY_AVAILABLE,    \* which engine library was imported
  fmu_default_stop,  \* defaultExperiment.stopTime of the FMU (FMPy only)
  input_keys,        \* list(set(input_names))
  step,              \* control step
  start_time,        \* the clock: current simulation time
  end_time,          \* end of the run, Unset until a warm-up initialize
  initialize_fmu,    \* engine-initialization flag
  y, u,              \* current value of every output / input channel
  y_store, u_store,  \* history of every output / input channel
  P_chillers_sum,    \* cumulative chiller power carried between sub-steps
  engine_calls,      \* engine calls made by the last operation
  sub_steps,         \* sub-steps composed by the last advance
  args,              \* arguments of the last operation
  ret,               \* what the last operation returned or raised
  session,           \* operations since the last successful initialize
  requests,          \* the requests in flight at the gateway
  final_time_itr     \* self.final_time_itr as the requests in flight see it

vars ==
  << FMPY_AVAILABLE, fmu_default_stop, input_keys, step, start_time, end_time,
     initialize_fmu, y, u, y_store, u_store, P_chillers_sum, engine_calls,
     sub_steps, args, ret, session, requests, final_time_itr >>

Unset == -1

\* the object as one record, so that a handler is a function of it
Self ==
  [ step |-> step, start_time |-> start_time, end_time |-> end_time,
    initialize_fmu |-> initialize_fmu,
    y |-> y, u |-> u, y_store |-> y_store, u_store |-> u_store,
    P_chillers_sum |-> P_chillers_sum,
    engine_calls |-> <<>>, sub_steps |-> <<>> ]

NullPayload == [k |-> "null", z |-> <<>>, v |-> 0]
DictPayload(z) == [k |-> "dict", z |-> z, v |-> 0]
TextPayload == [k |-> "text", z |-> <<>>, v |-> 0]

\* the (status, message, payload) triple a handler returns; the text of the
\* message is left out
Triple(op, status, msg, payload) ==
  [op |-> op, status |-> status, exc |-> "", payload |-> payload]

\* the handler raised exc instead of returning
Raised(op, exc) ==
  [op |-> op, status |-> 0, exc |-> exc, payload |-> NullPayload]

\* a reset of the data storage that also puts the control step back to the
\* configured one
initilize_data_resets_step(self) ==
  [self EXCEPT
     !.y = [key \in YKeys |-> EmptyList],
     !.y_store = [key \in YKeys |-> <<>>],
     !.u = [key \in UKeys |-> EmptyList],
     !.u_store = [key \in UKeys |-> <<>>],
     !.P_chillers_sum = 0,
     !.step = DefaultStep]

\* a reset of the data storage that forgets line 184 (CarryState kept)
initilize_data_keeps_carry(self) ==
  [self EXCEPT
     !.y = [key \in YKeys |-> EmptyList],
     !.y_store = [key \in YKeys |-> <<>>],
     !.u = [key \in UKeys |-> EmptyList],
     !.u_store = [key \in UKeys |-> <<>>]]

\* __initilize_data: fresh current values and histories, CarryState 0
initilize_data(self) ==
  [self EXCEPT
     !.y = [key \in YKeys |-> EmptyList],
     !.y_store = [key \in YKeys |-> <<>>],
     !.u = [key \in UKeys |-> EmptyList],
     !.u_store = [key \in UKeys |-> <<>>],
     !.P_chillers_sum = 0]

\* a __store_results that appends to the histories whatever store says
store_results_always(self, res, store) ==
  [self EXCEPT
     !.y = [key \in YKeys |-> Num(res[key])],
     !.y_store = [key \in YKeys |-> Append(self.y_store[key], res[key])],
     !.u = [key \in UKeys |-> Num(res[key])],
     !.u_store = [key \in UKeys |-> Append(self.u_store[key], res[key])]]

\* a __store_results that keeps the history of the outputs alone
store_results_outputs_only(self, res, store) ==
  [self EXCEPT
     !.y = [key \in YKeys |-> Num(res[key])],
     !.y_store = [key \in YKeys |->
                    IF store THEN Append(self.y_store[key], res[key])
                    ELSE self.y_store[key]],
     !.u = [key \in UKeys |-> Num(res[key])]]

\* __store_results: the final sample of res becomes the current value of
\* every channel and, with store, is appended to its history
store_results(self, res, store) ==
  [self EXCEPT
     !.y = [key \in YKeys |-> Num(res[key])],
     !.y_store = [key \in YKeys |->
                    IF store THEN Append(self.y_store[key], res[key])
                    ELSE self.y_store[key]],
     !.u = [key \in UKeys |-> Num(res[key])],
     !.u_store = [key \in UKeys |->
                    IF store THEN Append(self.u_store[key], res[key])
                    ELSE self.u_store[key]]]

\* a _get_full_current_state that forgets z.update(u): the outputs alone
get_full_current_state_outputs_only(self) ==
  [key \in YKeys |-> self.y[key]]

\* _get_full_current_state: z = y.copy(); z.update(u)
get_full_current_state(self) ==
  [key \in YKeys \cup UKeys |->
     IF key \in UKeys THEN self.u[key] ELSE self.y[key]]

\* ------------------------------------------------------------------------
\* Engine calls
\* ------------------------------------------------------------------------
Max(a, b) == IF a >= b THEN a ELSE b
Min(a, b) == IF a <= b THEN a ELSE b

\* one engine call as the engine sees it: the simulated window, the composed
\* input object, the value given to each channel, the initialize option,
\* whether the engine instance is a freshly reset one, and the outcome
EngineCall(start, stop, u_list, u_trajectory, given, init, fresh, ok) ==
  [start |-> start, stop |-> stop, u_list |-> u_list,
   u_trajectory |-> u_trajectory, given |-> given, initialize |-> init,
   fresh |-> fresh, ok |-> ok]

\* the input_dict the FMPy branches build from input_object: u_data is the
\* transposed trajectory, a matrix of one row
InputDict(u_list, u_trajectory) ==
  LET u_data == IF Len(u_list) = 0 THEN <<>> ELSE <<u_trajectory>>
      taken == {i \in 0..(Len(u_list) - 1) :
                  u_list[i + 1] # "time" /\ Len(u_data) > i}
  IN [key \in {u_list[i + 1] : i \in taken} |->
        LET i == CHOOSE j \in taken : u_list[j + 1] = key
        IN u_data[i + 1][1]]

\* _simulate_fmu_improved: the window and inputs simulate_fmu is called with
simulate_fmu_improved(stop_limit, start, stop, inputs) ==
  LET adjusted_start == Max(start, fmu_default_start)
      total_duration == stop - start
      chunk_size == Min((stop_limit * 8) \div 10, total_duration)
      adjusted_stop == IF total_duration > stop_limit
                       THEN adjusted_start + chunk_size ELSE stop
  IN [start |-> adjusted_start, stop |-> adjusted_stop,
      given |-> [key \in (DOMAIN inputs) \cap input_names |-> inputs[key]]]

\* the call the FMPy back-end makes for a window and an input object
FmpyCall(stop_limit, start, stop, u_list, u_trajectory, ok) ==
  LET c == simulate_fmu_improved(stop_limit, start, stop,
                                 InputDict(u_list, u_trajectory))
  IN EngineCall(c.start, c.stop, u_list, u_trajectory, c.given, TRUE, TRUE, ok)

\* the call the PyFMI back-end makes for a window and an input object
PyfmiCall(start, stop, u_list, u_trajectory, init, fresh, ok) ==
  EngineCall(start, stop, u_list, u_trajectory,
             GivenByTrajectory(u_list, u_trajectory), init, fresh, ok)

\* ------------------------------------------------------------------------
\* initialize(start_time, end_time)
\* ------------------------------------------------------------------------
\* the trajectory of the warm-up sub-step: for each key of keys, the
\* warm-start action if the action row has one, else the disturbance value
RECURSIVE WarmupCompose(_, _, _, _, _)
WarmupCompose(keys, i, init_t1, u_list, u_trajectory) ==
  IF i > Len(keys) THEN [u_list |-> u_list, u_trajectory |-> u_trajectory,
                         exc |-> ""]
  ELSE
    LET key == keys[i]
        init_u == initialization_actions[init_t1 \div 300]
    IN IF key # "time" /\ key \in DOMAIN init_u
       THEN WarmupCompose(keys, i + 1, init_t1, Append(u_list, key),
                          Append(u_trajectory, init_u[key]))
       ELSE IF key \in DisturbanceNames
       THEN IF init_t1 \notin DOMAIN disturbance_data
            THEN [u_list |-> u_list, u_trajectory |-> u_trajectory,
                  exc |-> "KeyError"]
            ELSE WarmupCompose(keys, i + 1, init_t1, Append(u_list, key),
                               Append(u_trajectory,
                                      disturbance_data[init_t1][key]))
       ELSE WarmupCompose(keys, i + 1, init_t1, u_list, u_trajectory)

\* the validations of initialize without the check against the maximum
\* end_time of lines 365-370
InitializeRejectionNoHorizon(start_in, end_in) ==
  LET st == ToFloat(start_in)
      en == ToFloat(end_in)
  IN CASE ~st.ok -> "start_time not a number"
       [] st.val < 0 -> "start_time negative"
       [] st.val % 300 # 0 -> "start_time not a multiple of 300"
       [] ~en.ok -> "end_time not a number"
       [] en.val < 0 -> "end_time negative"
       [] en.val <= st.val -> "end_time not greater than start_time"
       [] en.val % 300 # 0 -> "end_time not a multiple of 300"
       [] OTHER -> ""

\* which validation of initialize rejects the arguments ("" when none does)
InitializeRejection(start_in, end_in) ==
  LET st == ToFloat(start_in)
      en == ToFloat(end_in)
  IN CASE ~st.ok -> "start_time not a number"
       [] st.val < 0 -> "start_time negative"
       [] st.val % 300 # 0 -> "start_time not a multiple of 300"
       [] ~en.ok -> "end_time not a number"
       [] en.val < 0 -> "end_time negative"
       [] en.val <= st.val -> "end_time not greater than start_time"
       [] en.val % 300 # 0 -> "end_time not a multiple of 300"
       [] en.val > MAX_HORIZON -> "end_time beyond the maximum"
       [] OTHER -> ""

\* the warm-up branch of initialize (start_time > 0) on the validated
\* arguments; self1 is the object after the reset of the data storage
InitializeWarmup(fmpy, stop_limit, keys, self1, start, end, eng) ==
  LET init_t1 == start - 300
  IN IF init_t1 \div 300 \notin DOMAIN initialization_actions
     THEN [self |-> self1, ret |-> Raised("initialize", "IndexError")]
     ELSE
       LET c == WarmupCompose(keys, 1, init_t1, <<>>, <<init_t1>>)
           call == IF fmpy
                   THEN FmpyCall(stop_limit, init_t1, init_t1 + 300,
                                 c.u_list, c.u_trajectory, eng.first)
                   ELSE PyfmiCall(init_t1, init_t1 + 300, c.u_list,
                                  c.u_trajectory, self1.initialize_fmu, TRUE,
                                  eng.first)
           self2 == [self1 EXCEPT !.engine_calls = <<call>>]
           res == EngineResult(call.stop, eng.pw, call.given)
           self3 == [store_results([self2 EXCEPT !.initialize_fmu = FALSE],
                                   res, FALSE)
                       EXCEPT !.start_time = start, !.end_time = end]
       IN IF c.exc # ""
          THEN [self |-> self1, ret |-> Raised("initialize", c.exc)]
          ELSE IF ~eng.first
          THEN IF fmpy
               THEN [self |-> self2,
                     ret |-> Triple("initialize", 500, "warmup failed",
                                    NullPayload)]
               ELSE [self |-> self2,
                     ret |-> Raised("initialize", "FMUException")]
          ELSE [self |-> self3,
                ret |-> Triple("initialize", 200, "initialized with warmup",
                               DictPayload(get_full_current_state(self3)))]

\* an initialize whose start_time = 0 branch returns the merged current state
\* of the object instead of the stored t=0 row
initialize_current_state_at_0(fmpy, stop_limit, keys, self, start_in, end_in, eng) ==
  LET self0 == initilize_data(self)
      rejection == InitializeRejection(start_in, end_in)
      start == ToFloat(start_in).val
      end == ToFloat(end_in).val
      self1 == [self0 EXCEPT !.initialize_fmu = TRUE]
  IN IF rejection # ""
     THEN [self |-> self0,
           ret |-> Triple("initialize", 400, rejection, NullPayload)]
     ELSE IF start = 0
     THEN [self |-> self1,
           ret |-> Triple("initialize", 200, "initialized to 0",
                          DictPayload(get_full_current_state(self1)))]
     ELSE InitializeWarmup(fmpy, stop_limit, keys, self1, start, end, eng)

\* initialize: the object after the call and what the call returned
initialize(fmpy, stop_limit, keys, self, start_in, end_in, eng) ==
  LET self0 == initilize_data(self)
      rejection == InitializeRejection(start_in, end_in)
      start == ToFloat(start_in).val
      end == ToFloat(end_in).val
      self1 == [self0 EXCEPT !.initialize_fmu = TRUE]
  IN IF rejection # ""
     THEN [self |-> self0,
           ret |-> Triple("initialize", 400, rejection, NullPayload)]
     ELSE IF start = 0
     THEN [self |-> self1,
           ret |-> Triple("initialize", 200, "initialized to 0",
                          DictPayload([key \in DOMAIN initialization_obs0 |->
                                         Num(initialization_obs0[key])]))]
     ELSE InitializeWarmup(fmpy, stop_limit, keys, self1, start, end, eng)

\* ------------------------------------------------------------------------
\* advance(u)
\* ------------------------------------------------------------------------
\* u.get(key, 0) or 0
GetOrZero(u_in, key) ==
  IF key \notin DOMAIN u_in THEN Num(0)
  ELSE LET x == u_in[key]
       IN IF x.t = "none" \/ (x.t = "num" /\ x.v = 0) \/ (x.t = "str" /\ x.s = "")
          THEN Num(0) ELSE x

TypeError == [t |-> "TypeError", v |-> 0, s |-> ""]

\* Python's a + b on numbers and strings
PyAdd(a, b) ==
  CASE a.t = "num" /\ b.t = "num" -> Num(a.v + b.v)
    [] a.t = "str" /\ b.t = "str" -> Str(a.s \o b.s)
    [] OTHER -> TypeError

\* the sum of the channels of a staging group, added left to right
RECURSIVE StagingSum(_, _, _)
StagingSum(u_in, channels, n) ==
  IF n = 1 THEN GetOrZero(u_in, channels[1])
  ELSE PyAdd(StagingSum(u_in, channels, n - 1), GetOrZero(u_in, channels[n]))

chiller_count(u_in) == StagingSum(u_in, ChillerChannels, 6)
heat_exchanger_count(u_in) == StagingSum(u_in, HeatExchangerChannels, 6)
\* a valve count that is not doubled
cooling_tower_valve_count_single(u_in) ==
  StagingSum(u_in, CoolingTowerChannels, 6)

cooling_tower_valve_count(u_in) ==
  LET x == StagingSum(u_in, CoolingTowerChannels, 6)
  IN CASE x.t = "num" -> Num(x.v * 2)
       [] x.t = "str" -> Str(x.s \o x.s)
       [] OTHER -> x

\* a sub-step count that rounds down and adds one
iteration_num_one_more(stp) == stp \div sim_interval + 1

\* math.ceil(self.step / self.sim_interval)
iteration_num(stp) == (stp + sim_interval - 1) \div sim_interval

\* __calc_Mcw(...)/1000 in thousandths, temperatures in hundredths of a kelvin
calc_Mcw(Mchw, P, Tchw_r, Tchws_set_CHI) ==
  Mchw + (P \div (42 * (Tchw_r - Tchws_set_CHI)))

\* the frozen regression model: a fixed function of its four inputs
calc_head_required(chillers, exchangers, valves, mcw) ==
  1000000 * chillers + 100000 * exchangers + 10000 * valves + mcw

\* the loop over input_keys of one sub-step at timestamp t: the channel
\* list, the trajectory, the set-point and the two disturbance values used
\* by the mass-flow computation; status is "" unless the loop left early
RECURSIVE AdvanceCompose(_, _, _, _, _)
AdvanceCompose(keys, i, t, u_in, acc) ==
  IF i > Len(keys) THEN acc
  ELSE
    LET key == keys[i]
    IN IF key # "time" /\ key \in DOMAIN u_in
       THEN IF u_in[key].t = "none"
            THEN AdvanceCompose(keys, i + 1, t, u_in, acc)
            ELSE IF ~ToFloat(u_in[key]).ok
            THEN [acc EXCEPT !.status = "invalid value"]
            ELSE
              LET value == ToFloat(u_in[key]).val
              IN AdvanceCompose(keys, i + 1, t, u_in,
                   [acc EXCEPT
                      !.Tchws_set_CHI =
                         IF key = "Tchws_set_CHI" THEN value ELSE @,
                      !.u_list = Append(@, key),
                      !.u_trajectory = Append(@, value)])
       ELSE IF key \in DisturbanceNames
       THEN IF t \notin DOMAIN disturbance_data
            THEN [acc EXCEPT !.status = "KeyError"]
            ELSE
              LET value == disturbance_data[t][key]
              IN AdvanceCompose(keys, i + 1, t, u_in,
                   [acc EXCEPT
                      !.Mchw = IF key = "Mchw" THEN Num(value) ELSE @,
                      !.Tchw_r = IF key = "Tchw_r" THEN Num(value) ELSE @,
                      !.u_list = Append(@, key),
                      !.u_trajectory = Append(@, value)])
       ELSE AdvanceCompose(keys, i + 1, t, u_in, acc)

ComposeStart(t) ==
  [u_list |-> <<>>, u_trajectory |-> <<t>>, Tchws_set_CHI |-> DefaultTchwsSet,
   Mchw |-> None, Tchw_r |-> None, status |-> ""]

\* the input object of one sub-step with control inputs, from the outcome c
\* of the loop over input_keys: the composed channels followed by
\* Head_required; exc names what the code raises, estimated says that
\* __calc_head_required was called and returned
SubStepInputOf(c, u_in, P) ==
  LET cc == chiller_count(u_in)
      hc == heat_exchanger_count(u_in)
      vc == cooling_tower_valve_count(u_in)
      exc == CASE c.status = "KeyError" -> "KeyError"
               [] c.status # "" -> ""
               [] c.Tchw_r.t # "num" -> "TypeError"
               [] c.Tchw_r.v = c.Tchws_set_CHI -> "ZeroDivisionError"
               [] c.Mchw.t # "num" -> "TypeError"
               [] cc.t # "num" \/ hc.t # "num" \/ vc.t # "num" -> "ValueError"
               [] OTHER -> ""
      ok == c.status = "" /\ exc = ""
      Mcw == IF ok THEN calc_Mcw(c.Mchw.v, P, c.Tchw_r.v, c.Tchws_set_CHI)
             ELSE 0
      Head_required == IF ok THEN calc_head_required(cc.v, hc.v, vc.v, Mcw)
                       ELSE 0
      supplied == "Head_required" \in DOMAIN u_in
  IN [status |-> c.status, exc |-> exc,
      u_list |-> Append(c.u_list, "Head_required"),
      u_trajectory |->
         Append(c.u_trajectory,
                IF supplied THEN ToFloat(u_in["Head_required"]).val
                ELSE Head_required),
      Mchw |-> c.Mchw, Tchw_r |-> c.Tchw_r,
      Tchws_set_CHI |-> c.Tchws_set_CHI, P_read |-> P, Mcw |-> Mcw,
      Head_estimated |-> Head_required, estimated |-> ok]

\* an input object composed from the disturbance row of the end of the
\* sub-step's window
SubStepInput_row_of_window_end(keys, t, u_in, P) ==
  The({SubStepInputOf(c, u_in, P) :
         c \in {AdvanceCompose(keys, 1, t + sim_interval, u_in,
                               ComposeStart(t))}})

\* the input object of one sub-step at timestamp t
SubStepInput(keys, t, u_in, P) ==
  The({SubStepInputOf(c, u_in, P) :
         c \in {AdvanceCompose(keys, 1, t, u_in, ComposeStart(t))}})

\* a CarryState that adds the chiller powers of a result to nothing but the
\* first chiller's
PchiSum_first_chiller(res) == res["Pchi1"]

\* sum of the six per-chiller powers of a result
PchiSum(res) ==
  res["Pchi1"] + res["Pchi2"] + res["Pchi3"] + res["Pchi4"] + res["Pchi5"]
    + res["Pchi6"]

\* the engine calls of one sub-step: the first attempt and, if it fails, one
\* retry on a reloaded and reset engine
SubStepCalls(fmpy, stop_limit, start, stop, u_list, u_trajectory, init, eng) ==
  LET first == IF fmpy
               THEN FmpyCall(stop_limit, start, stop, u_list, u_trajectory,
                             eng.first)
               ELSE PyfmiCall(start, stop, u_list, u_trajectory, init, FALSE,
                              eng.first)
      retry == IF fmpy
               THEN FmpyCall(stop_limit, start, stop, u_list, u_trajectory,
                             eng.retry)
               ELSE PyfmiCall(start, stop, u_list, u_trajectory, TRUE, TRUE,
                              eng.retry)
  IN IF eng.first THEN <<first>> ELSE <<first, retry>>

\* what one iteration of the loop of advance does with its input object inp
\* and the engine calls it makes; the sub-step is recorded with what it read
\* and, once the engine has run, with the chiller powers of the final sample
\* and the CarryState it wrote
SubStepOf(fmpy, self, start_itr, final_itr, composed, inp, calls, pw) ==
  LET last == calls[Len(calls)]
      self2 == [self EXCEPT
                  !.engine_calls = @ \o calls,
                  !.sub_steps =
                     Append(@, [start |-> start_itr, final |-> final_itr,
                                composed |-> composed, P_read |-> inp.P_read,
                                Mchw |-> inp.Mchw, Tchw_r |-> inp.Tchw_r,
                                Tchws_set_CHI |-> inp.Tchws_set_CHI,
                                Mcw |-> inp.Mcw,
                                Head_estimated |-> inp.Head_estimated,
                                estimated |-> inp.estimated,
                                Pchi |-> <<>>, P_written |-> Unset])]
  IN IF inp.exc # ""
     THEN [out |-> "raise", self |-> self,
           ret |-> Raised("advance", inp.exc), res |-> <<>>]
     ELSE IF inp.status # ""
     THEN [out |-> "return", self |-> self,
           ret |-> Triple("advance", 400, inp.status, NullPayload),
           res |-> <<>>]
     ELSE IF ~last.ok
     THEN [out |-> "raise", self |-> self2,
           ret |-> Raised("advance", IF fmpy THEN "Exception"
                                     ELSE "FMUException"),
           res |-> <<>>]
     ELSE The({[out |-> "next",
                self |-> [self2 EXCEPT
                            !.initialize_fmu = FALSE,
                            !.P_chillers_sum = PchiSum(res),
                            !.sub_steps[Len(self2.sub_steps)].Pchi =
                               [key \in PchiNames |-> res[key]],
                            !.sub_steps[Len(self2.sub_steps)].P_written =
                               PchiSum(res)],
                ret |-> Raised("advance", ""), res |-> res] :
                 res \in {EngineResult(last.stop, pw, last.given)}})

\* one iteration of the loop of advance.  out is "next" when the loop goes
\* on, "return" when the handler returned ret, "raise" when it raised
SubStep(fmpy, stop_limit, keys, self, u_in, i, n, eng) ==
  LET start_itr == self.start_time + sim_interval * i
      final_itr == IF i < n - 1 THEN self.start_time + sim_interval * (i + 1)
                   ELSE self.start_time + self.step
      options_initialize == self.initialize_fmu
      composed == DOMAIN u_in # {}
  IN The({The({SubStepOf(fmpy, self, start_itr, final_itr, composed, inp,
                         calls, eng.pw) :
                 calls \in {SubStepCalls(fmpy, stop_limit, start_itr,
                                         final_itr, inp.u_list,
                                         inp.u_trajectory, options_initialize,
                                         eng)}}) :
            inp \in {IF composed
                     THEN SubStepInput(keys, start_itr, u_in,
                                       self.P_chillers_sum)
                     ELSE [status |-> "", exc |-> "", u_list |-> <<>>,
                           u_trajectory |-> <<>>, Mchw |-> None,
                           Tchw_r |-> None,
                           Tchws_set_CHI |-> DefaultTchwsSet,
                           P_read |-> self.P_chillers_sum, Mcw |-> 0,
                           Head_estimated |-> 0, estimated |-> FALSE]}})

\* the loop of advance from iteration i on; engs[i + 1] is the engine's
\* outcome in iteration i
RECURSIVE AdvanceLoop(_, _, _, _, _, _, _, _, _)
AdvanceLoop(fmpy, stop_limit, keys, self, u_in, i, n, engs, res) ==
  IF i >= n
  THEN [out |-> "next", self |-> self, ret |-> Raised("advance", ""),
        res |-> res]
  ELSE The({IF r.out # "next" THEN r
            ELSE AdvanceLoop(fmpy, stop_limit, keys, r.self, u_in, i + 1, n,
                             engs, r.res) :
              r \in {SubStep(fmpy, stop_limit, keys, self, u_in, i, n,
                             engs[i + 1])}})

\* what advance does after its loop; final_itr is the self.final_time_itr
\* it reads
AfterLoop(loop, n, final_itr) ==
  IF loop.out # "next"
  THEN [self |-> loop.self, ret |-> loop.ret]
  ELSE IF n = 0
  THEN [self |-> loop.self, ret |-> Raised("advance", "UnboundLocalError")]
  ELSE The({[self |-> done,
             ret |-> Triple("advance", 200, "advanced",
                            DictPayload(get_full_current_state(done)))] :
              done \in {[store_results(loop.self, loop.res, TRUE)
                           EXCEPT !.start_time = final_itr]}})

\* advance: the object after the call and what the call returned
advance(fmpy, stop_limit, keys, self, u_in, engs) ==
  IF chiller_count(u_in).t = "TypeError"
     \/ heat_exchanger_count(u_in).t = "TypeError"
     \/ cooling_tower_valve_count(u_in).t = "TypeError"
  THEN [self |-> self, ret |-> Raised("advance", "TypeError")]
  ELSE The({AfterLoop(loop, iteration_num(self.step),
                      self.start_time + self.step) :
              loop \in {AdvanceLoop(fmpy, stop_limit, keys, self, u_in, 0,
                                    iteration_num(self.step), engs, <<>>)}})

\* ------------------------------------------------------------------------
\* get_step, set_step
\* ------------------------------------------------------------------------
get_step(self) ==
  [self |-> self,
   ret |-> Triple("get_step", 200, "queried", [k |-> "step", z |-> <<>>,
                                               v |-> self.step])]

\* a set_step without the check that step is a multiple of 300
set_step_any_multiple(self, step_in) ==
  LET f == ToFloat(step_in)
  IN IF ~f.ok
     THEN [self |-> self,
           ret |-> Triple("set_step", 400, "step not a number", NullPayload)]
     ELSE IF f.val < 0
     THEN [self |-> self,
           ret |-> Triple("set_step", 400, "step negative", NullPayload)]
     ELSE [self |-> [self EXCEPT !.step = f.val],
           ret |-> Triple("set_step", 200, "set",
                          [k |-> "step", z |-> <<>>, v |-> f.val])]

set_step(self, step_in) ==
  LET f == ToFloat(step_in)
  IN IF ~f.ok
     THEN [self |-> self,
           ret |-> Triple("set_step", 400, "step not a number", NullPayload)]
     ELSE IF f.val < 0
     THEN [self |-> self,
           ret |-> Triple("set_step", 400, "step negative", NullPayload)]
     ELSE IF f.val % 300 # 0
     THEN [self |-> self,
           ret |-> Triple("set_step", 400, "step not a multiple of 300",
                          NullPayload)]
     ELSE [self |-> [self EXCEPT !.step = f.val],
           ret |-> Triple("set_step", 200, "set",
                          [k |-> "step", z |-> <<>>, v |-> f.val])]

\* ------------------------------------------------------------------------
\* get_results(point_names, start_time, final_time)
\* ------------------------------------------------------------------------
SeqMin(q) == CHOOSE x \in Range(q) : \A z \in Range(q) : x <= z
SeqMax(q) == CHOOSE x \in Range(q) : \A z \in Range(q) : x >= z
\* list.index(x): position (from 0) of the first occurrence
IndexOf(q, x) == (CHOOSE i \in DOMAIN q : q[i] = x /\ \A j \in 1..(i - 1) : q[j] # x) - 1
\* q[i1:i2]
Slice(q, i1, i2) ==
  IF i2 <= i1 THEN <<>> ELSE SubSeq(q, i1 + 1, Min(i2, Len(q)))

\* the time history the window is computed on
ResultsTime(self, point_names) ==
  IF \E i \in DOMAIN point_names : point_names[i] \in YKeys
  THEN self.y_store["time"] ELSE self.u_store["time"]

\* the index range [i1, i2) of the window, or the exception the search raises
ResultsWindow(times, start, final) ==
  IF times = <<>> THEN [exc |-> "ValueError", i1 |-> 0, i2 |-> 0]
  ELSE
    LET min_t == SeqMin(times)
        max_t == SeqMax(times)
        after == {x \in Range(times) : x >= start}
        before == {x \in Range(times) : x <= final}
        first_after == times[CHOOSE i \in DOMAIN times :
                               /\ times[i] >= start
                               /\ \A j \in 1..(i - 1) : times[j] < start]
        last_before == times[CHOOSE i \in DOMAIN times :
                               /\ times[i] <= final
                               /\ \A j \in (i + 1)..Len(times) : times[j] > final]
        t1 == IF min_t < start
              THEN (IF start \in Range(times) THEN start ELSE first_after)
              ELSE min_t
        t2 == IF max_t > final
              THEN (IF final \in Range(times) THEN final ELSE last_before)
              ELSE max_t
    IN IF (min_t < start /\ after = {}) \/ (max_t > final /\ before = {})
       THEN [exc |-> "IndexError", i1 |-> 0, i2 |-> 0]
       ELSE [exc |-> "", i1 |-> IndexOf(times, t1),
             i2 |-> IndexOf(times, t2) + 1]

\* the slicing loop over point_names + ['time']: every occurrence of a key
\* slices that key's sequence once more
RECURSIVE SliceAll(_, _, _, _, _)
SliceAll(payload, names, i, i1, i2) ==
  IF i > Len(names) THEN payload
  ELSE SliceAll([payload EXCEPT ![names[i]] = Slice(@, i1, i2)],
                names, i + 1, i1, i2)

\* the payload get_results has built when it reaches its conversion loop
ResultsPayload(self, point_names, i1, i2) ==
  LET keys == Range(point_names) \cup {"time"}
      whole == [key \in keys |->
                  IF key = "time" THEN ResultsTime(self, point_names)
                  ELSE IF key \in YKeys THEN self.y_store[key]
                  ELSE self.u_store[key]]
  IN SliceAll(whole, Append(point_names, "time"), 1, i1, i2)

\* a get_results that passes over the names it does not know instead of
\* rejecting the query
get_results_skips_unknown(self, point_names, start_in, final_in) ==
  LET st == ToFloat(start_in)
      fi == ToFloat(final_in)
      w == ResultsWindow(ResultsTime(self, point_names), st.val, fi.val)
  IN IF ~st.ok
     THEN [self |-> self, ret |-> Triple("get_results", 400,
                                         "start_time not a number", NullPayload)]
     ELSE IF ~fi.ok
     THEN [self |-> self, ret |-> Triple("get_results", 400,
                                         "final_time not a number", NullPayload)]
     ELSE IF point_names = <<>>
     THEN [self |-> self, ret |-> Triple("get_results", 200, "queried",
                                         DictPayload(<<>>))]
     ELSE IF w.exc # ""
     THEN [self |-> self, ret |-> Triple("get_results", 500, w.exc, NullPayload)]
     ELSE [self |-> self, ret |-> Raised("get_results", "AttributeError")]

get_results(self, point_names, start_in, final_in) ==
  LET st == ToFloat(start_in)
      fi == ToFloat(final_in)
      w == ResultsWindow(ResultsTime(self, point_names), st.val, fi.val)
  IN IF ~st.ok
     THEN [self |-> self, ret |-> Triple("get_results", 400,
                                         "start_time not a number", NullPayload)]
     ELSE IF ~fi.ok
     THEN [self |-> self, ret |-> Triple("get_results", 400,
                                         "final_time not a number", NullPayload)]
     ELSE IF \E i \in DOMAIN point_names : point_names[i] \notin YKeys \cup UKeys
     THEN [self |-> self, ret |-> Triple("get_results", 400,
                                         "invalid point name", NullPayload)]
     ELSE IF point_names = <<>>
     THEN [self |-> self, ret |-> Triple("get_results", 200, "queried",
                                         DictPayload(<<>>))]
     ELSE IF w.exc # ""
     THEN [self |-> self, ret |-> Triple("get_results", 500, w.exc, NullPayload)]
     \* payload[key].tolist() on a list
     ELSE [self |-> self, ret |-> Raised("get_results", "AttributeError")]

\* ------------------------------------------------------------------------
\* Inputs of the operations
\* ------------------------------------------------------------------------
\* (start_time, end_time) arguments of initialize; Absent leaves end_time
\* to its default
InitializeInputs ==
  { <<Num(0), Absent>>, <<Str("300"), Num(600)>>,
    <<Num(600), Absent>>,
    <<Str("abc"), Absent>>, <<Num(-300), Absent>>, <<Num(301), Absent>>,
    <<Num(0), Str("abc")>>, <<Num(0), Num(-300)>>, <<Num(300), Num(300)>>,
    <<Num(0), Num(450)>>, <<Num(0), Num(MAX_HORIZON + 300)>> }

StepInputs == {Num(0), Num(300), Num(600), Num(-300), Num(301), Str("abc")}

NoControls == [key \in {} |-> None]

ControlInputs ==
  { NoControls,
    ("CHI01" :> Num(1)) @@ ("CHWP01_rpm" :> Num(800)),
    ("CHI01" :> Str("invalid")) @@ ("CHWP01_rpm" :> Num(-100)),
    ("CHWP01_rpm" :> Str("abc")) }

\* (point_names, start_time, final_time) arguments of get_results
ResultsInputs ==
  { << <<"time">>, Num(0), Num(0) >>, << <<"time">>, Num(300), Num(300) >>,
    << <<"Pchi1", "CHI01", "time">>, Num(450), Num(750) >>,
    << <<"Pchi1", "nope", "CHI01">>, Num(0), Num(900) >>,
    << <<"Pchi1">>, Str("abc"), Num(900) >> }

\* the engine's outcomes that differ for the caller
WarmupOutcomes == {e \in EngineOutcomes : ~e.retry /\ (~e.first => e.pw = 1)}
SubStepOutcomes ==
  {e \in EngineOutcomes : (e.first => ~e.retry)
                          /\ (~e.first /\ ~e.retry => e.pw = 1)
                          /\ (~e.first /\ e.retry => e.pw = 2)}

\* the end_time initialize runs with: its default when the caller gave none
EndArg(end_in) == IF end_in = Absent THEN Num(MAX_HORIZON) ELSE end_in

\* the outcome listed where no engine call can happen
NoEngine == [first |-> TRUE, retry |-> FALSE, pw |-> 1]

\* the controls that advance rejects or fails on before any engine call,
\* whatever the timestamp
ControlsRejected(u_in) ==
  \/ chiller_count(u_in).t = "TypeError"
  \/ heat_exchanger_count(u_in).t = "TypeError"
  \/ cooling_tower_valve_count(u_in).t = "TypeError"
  \/ \E key \in DOMAIN u_in : u_in[key].t # "none" /\ ~ToFloat(u_in[key]).ok

\* ------------------------------------------------------------------------
\* The state machine
\* ------------------------------------------------------------------------
\* the requests the gateway serves at the same time, and one that has not
\* arrived yet
Requests == {1, 2}
NoRequest == [pc |-> "idle", op |-> "", i |-> 0, n |-> 0, res |-> <<>>,
              overlaps |-> FALSE]

NoSession == [valid |-> FALSE, t0 |-> 0, end |-> 0, k |-> 0, elapsed |-> 0]

Init ==
  /\ FMPY_AVAILABLE \in BOOLEAN
  /\ fmu_default_stop \in (IF FMPY_AVAILABLE THEN {250, 1000} ELSE {Unset})
  /\ input_keys \in InputKeyOrders
  /\ step = DefaultStep
  /\ start_time = 0
  /\ end_time = Unset
  /\ initialize_fmu = TRUE
  /\ y = [key \in YKeys |-> EmptyList]
  /\ y_store = [key \in YKeys |-> <<>>]
  /\ u = [key \in UKeys |-> EmptyList]
  /\ u_store = [key \in UKeys |-> <<>>]
  /\ P_chillers_sum = 0
  /\ engine_calls = <<>>
  /\ sub_steps = <<>>
  /\ args = <<>>
  /\ ret = Triple("constructor", 200, "", NullPayload)
  /\ session = NoSession
  /\ requests = [r \in Requests |-> NoRequest]
  /\ final_time_itr = Unset

\* the object and the result of a handler become the next state
Becomes(r) ==
  /\ step' = r.self.step
  /\ start_time' = r.self.start_time
  /\ end_time' = r.self.end_time
  /\ initialize_fmu' = r.self.initialize_fmu
  /\ y' = r.self.y
  /\ u' = r.self.u
  /\ y_store' = r.self.y_store
  /\ u_store' = r.self.u_store
  /\ P_chillers_sum' = r.self.P_chillers_sum
  /\ engine_calls' = r.self.engine_calls
  /\ sub_steps' = r.self.sub_steps
  /\ ret' = r.ret
  /\ UNCHANGED <<FMPY_AVAILABLE, fmu_default_stop, input_keys>>

\* a call of initialize(start_time[, end_time])
Initialize ==
  \E args_in \in InitializeInputs :
  \E eng \in (IF InitializeRejection(args_in[1], EndArg(args_in[2])) = ""
                 /\ ToFloat(args_in[1]).val # 0
              THEN WarmupOutcomes ELSE {NoEngine}) :
    LET start_in == args_in[1]
        end_in == args_in[2]
        end_arg == EndArg(end_in)
    IN \E r \in {initialize(FMPY_AVAILABLE, fmu_default_stop, input_keys,
                            Self, start_in, end_arg, eng)} :
       /\ Becomes(r)
       /\ args' = args_in
       /\ session' = IF r.ret.status = 200
                     THEN [valid |-> TRUE, t0 |-> ToFloat(start_in).val,
                           end |-> ToFloat(end_arg).val, k |-> 0,
                           elapsed |-> 0]
                     ELSE NoSession
       /\ UNCHANGED <<requests, final_time_itr>>

\* a call of advance(u)
Advance ==
  /\ start_time <= MaxAdvanceStart * sim_interval
  /\ \E u_in \in ControlInputs :
     \E engs \in [1..iteration_num(step) ->
                    IF ControlsRejected(u_in) THEN {NoEngine}
                    ELSE SubStepOutcomes] :
       \E r \in {advance(FMPY_AVAILABLE, fmu_default_stop, input_keys, Self,
                          u_in, engs)} :
          /\ Becomes(r)
          /\ args' = u_in
          /\ session' = IF r.ret.status = 200 /\ session.valid
                        THEN [session EXCEPT !.k = @ + 1,
                                             !.elapsed = @ + step]
                        ELSE session
          /\ UNCHANGED <<requests, final_time_itr>>

\* a call of get_step()
GetStep ==
  /\ \E r \in {get_step(Self)} : Becomes(r)
  /\ args' = <<>>
  /\ UNCHANGED <<session, requests, final_time_itr>>

\* a call of set_step(step)
SetStep ==
  \E step_in \in StepInputs :
    /\ \E r \in {set_step(Self, step_in)} : Becomes(r)
    /\ args' = step_in
    /\ UNCHANGED <<session, requests, final_time_itr>>

\* a call of get_results(point_names, start_time, final_time)
GetResults ==
  \E args_in \in ResultsInputs :
    /\ \E r \in {get_results(Self, args_in[1], args_in[2], args_in[3])} :
         Becomes(r)
    /\ args' = args_in
    /\ UNCHANGED <<session, requests, final_time_itr>>

Next == Initialize \/ Advance \/ GetStep \/ SetStep \/ GetResults

Spec == Init /\ [][Next]_vars

\* ------------------------------------------------------------------------
\* advance on control mappings of every shape, with an engine that runs
\* ------------------------------------------------------------------------
\* control mappings: staged equipment, a null entry, a staging channel the
\* FMU list of the model leaves out, a caller's required head, a caller's
\* set-point, and entries under the names of disturbance channels
EstimatorControls ==
  { ("CHI01" :> Num(1)) @@ ("CHWP01_rpm" :> Num(800)),
    ("CHI01" :> Num(1)) @@ ("CHI02" :> Num(1)) @@ ("CHI03" :> Num(1))
      @@ ("CHI01_CW3" :> Num(1)) @@ ("U_CT1" :> Num(1)) @@ ("U_CT2" :> Num(1)),
    ("CHI01" :> None) @@ ("CHI02" :> Num(1)) @@ ("U_CT1" :> Num(1)),
    ("Head_required" :> Num(5)) @@ ("CHI01" :> Num(1)),
    ("Tchws_set_CHI" :> Num(28000)),
    ("Twb_outside" :> Num(5)),
    ("Mchw" :> Num(7)) }

\* the engine's outcomes of a sub-step that succeeds at the first attempt
EngineRuns == {e \in SubStepOutcomes : e.first}

\* a call of advance(u) with one of these mappings
AdvanceControls ==
  /\ start_time <= MaxAdvanceStart * sim_interval
  /\ \E u_in \in EstimatorControls :
     \E engs \in [1..iteration_num(step) -> EngineRuns] :
       \E r \in {advance(FMPY_AVAILABLE, fmu_default_stop, input_keys, Self,
                          u_in, engs)} :
          /\ Becomes(r)
          /\ args' = u_in
          /\ UNCHANGED <<session, requests, final_time_itr>>

\* a call of set_step(step) with an accepted step
SetStepControls ==
  \E step_in \in {Num(300), Num(600)} :
    /\ \E r \in {set_step(Self, step_in)} : Becomes(r)
    /\ args' = step_in
    /\ UNCHANGED <<session, requests, final_time_itr>>

NextControls == AdvanceControls \/ SetStepControls

SpecControls == Init /\ [][NextControls]_vars

\* ------------------------------------------------------------------------
\* The gateway: requests served by concurrent threads on the one TestCase
\* ------------------------------------------------------------------------
\* what parser_advance hands to advance for a request without a body: every
\* input of case.u except 'time', each None
GatewayControls == [key \in UKeys \ {"time"} |-> None]

\* the engine run that succeeds at the first attempt
EngineSucceeds == [first |-> TRUE, retry |-> FALSE, pw |-> 1]

\* another request is between its arrival and its response
InFlight(r) == requests[r].pc \notin {"idle", "done"}

\* POST /advance arrives: Advance.post parses the body and advance computes
\* its number of sub-steps
PostAdvance(r) ==
  /\ requests[r].pc = "idle"
  /\ requests' =
       [requests EXCEPT
          ![r] = [pc |-> IF iteration_num(step) = 0 THEN "store" ELSE "loop",
                  op |-> "advance", i |-> 0, n |-> iteration_num(step),
                  res |-> <<>>,
                  overlaps |-> \E o \in Requests \ {r} : InFlight(o)]]
  /\ UNCHANGED << FMPY_AVAILABLE, fmu_default_stop, input_keys, step,
                  start_time, end_time, initialize_fmu, y, u, y_store,
                  u_store, P_chillers_sum, engine_calls, sub_steps, args, ret,
                  session, final_time_itr >>

\* one iteration of the loop of advance, run by the thread of request r on
\* the object as it is now
AdvanceSubStep(r) ==
  /\ requests[r].pc = "loop"
  /\ \E s \in {SubStep(FMPY_AVAILABLE, fmu_default_stop, input_keys, Self,
                        GatewayControls, requests[r].i, requests[r].n,
                        EngineSucceeds)} :
       /\ Becomes([self |-> s.self,
                   ret |-> IF s.out = "next" THEN ret ELSE s.ret])
       /\ requests' =
            [requests EXCEPT
               ![r].pc = IF s.out # "next" THEN "done"
                         ELSE IF @ = "loop" /\ requests[r].i + 1 < requests[r].n
                         THEN "loop" ELSE "store",
               ![r].i = @ + 1,
               ![r].res = s.res]
  /\ final_time_itr' =
       IF requests[r].i < requests[r].n - 1
       THEN start_time + sim_interval * (requests[r].i + 1)
       ELSE start_time + step
  /\ UNCHANGED <<args, session>>

\* what advance does after its loop, run by the thread of request r:
\* the sample is stored, the clock is set to self.final_time_itr and the
\* response is built
AdvanceStore(r) ==
  /\ requests[r].pc = "store"
  /\ \E a \in {AfterLoop([out |-> "next", self |-> Self,
                           ret |-> Raised("advance", ""),
                           res |-> requests[r].res],
                          requests[r].n, final_time_itr)} :
       Becomes(a)
  /\ requests' = [requests EXCEPT ![r].pc = "done"]
  /\ UNCHANGED <<args, session, final_time_itr>>

\* PUT /initialize with start_time "0" and no end_time, served without
\* interruption
PutInitialize(r) ==
  /\ requests[r].pc = "idle"
  /\ \E a \in {initialize(FMPY_AVAILABLE, fmu_default_stop, input_keys, Self,
                           Str("0"), Num(MAX_HORIZON), NoEngine)} :
       Becomes(a)
  /\ requests' =
       [requests EXCEPT
          ![r] = [pc |-> "done", op |-> "initialize", i |-> 0, n |-> 0,
                  res |-> <<>>,
                  overlaps |-> \E o \in Requests \ {r} : InFlight(o)]]
  /\ UNCHANGED <<args, session, final_time_itr>>

NextGateway ==
  \E r \in Requests :
    PostAdvance(r) \/ AdvanceSubStep(r) \/ AdvanceStore(r) \/ PutInitialize(r)

SpecGateway == Init /\ [][NextGateway]_vars

\* ------------------------------------------------------------------------
\* Properties
\* ------------------------------------------------------------------------
\* every history of the object has n entries
HistoriesHave(n) ==
  /\ \A key \in YKeys : Len(y_store[key]) = n
  /\ \A key \in UKeys : Len(u_store[key]) = n

\* the last operation was a successful initialize
InitializeSucceeded == ret.op = "initialize" /\ ret.status = 200

\* C1: after a successful initialize(t0) and k successful advance calls, all
\* of them with step = 300, current_time is t0 + 300k.
C1_ClockAfterKAdvances ==
  (session.valid /\ session.elapsed = 300 * session.k)
     => start_time = session.t0 + 300 * session.k

\* the first half of C1 alone: a successful advance moves the clock from t
\* to t + step
AdvanceMovesClockByStep ==
  [][(ret'.op = "advance" /\ ret'.status = 200)
        => start_time' = start_time + step]_vars

\* C2: immediately after every successful initialize(start_time, end_time),
\* current_time is start_time and end_time holds the supplied value,
\* whatever came before.
C2_InitializeResetsClock ==
  InitializeSucceeded => (start_time = session.t0 /\ end_time = session.end)

\* C3: get_results(['time'], t0, t0) called immediately after a successful
\* initialize(t0) returns status 200 with a 'time' sequence of exactly one
\* sample, t0.
C3_OneSampleAfterInitialize ==
  [][(/\ InitializeSucceeded
      /\ ret'.op = "get_results"
      /\ args' = << <<"time">>, Num(session.t0), Num(session.t0) >>)
        => (/\ ret'.status = 200
            /\ ret'.payload = DictPayload([key \in {"time"} |->
                                             << session.t0 >>]))]_vars

\* the conditions C4 lists, each on its own
C4_Listed(start_in, end_in) ==
  LET st == ToFloat(start_in)
      en == ToFloat(end_in)
  IN \/ ~st.ok
     \/ ~en.ok
     \/ st.ok /\ st.val < 0
     \/ en.ok /\ en.val < 0
     \/ st.ok /\ st.val % 300 # 0
     \/ en.ok /\ en.val % 300 # 0
     \/ st.ok /\ en.ok /\ en.val <= st.val
     \/ en.ok /\ en.val > MAX_HORIZON

\* C4: initialize returns status 400, with a null payload, exactly when
\* start_time or end_time is not a number, is negative, is not a multiple of
\* 300, end_time <= start_time, or end_time > MAX_HORIZON.
C4_RejectedExactlyWhenListed ==
  ret.op = "initialize" =>
    /\ ret.status = 400 <=> C4_Listed(args[1], EndArg(args[2]))
    /\ ret.status = 400 => ret.payload = NullPayload

\* initialize has rejected an end_time beyond the maximum, all the other
\* conditions being met
C4_Witness ==
  /\ ret.op = "initialize"
  /\ ret.status = 400
  /\ args = <<Num(0), Num(MAX_HORIZON + 300)>>

\* C5: an initialize call rejected with status 400 changes no state: clock,
\* current values, histories and CarryState are as before the call.
C5_RejectedInitializeChangesNothing ==
  [][(ret'.op = "initialize" /\ ret'.status = 400)
        => UNCHANGED <<start_time, y, u, y_store, u_store,
                       P_chillers_sum>>]_vars

\* a value supplied in the controls is not convertible to a number
NonNumericControl(u_in) ==
  \E key \in DOMAIN u_in : u_in[key].t # "none" /\ ~ToFloat(u_in[key]).ok

\* C6: advance called with a control value that is not convertible to a
\* number (staging channels included) returns status 400 with a null
\* payload, makes no engine call and leaves current_time, CarryState and the
\* histories unchanged.
C6_NonNumericControlRejected ==
  [][(ret'.op = "advance" /\ NonNumericControl(args'))
        => (/\ ret'.status = 400
            /\ ret'.payload = NullPayload
            /\ engine_calls' = <<>>
            /\ UNCHANGED <<start_time, P_chillers_sum, y_store,
                           u_store>>)]_vars

\* the engine failed in the first attempt and in the retry of a sub-step
RetryFailed ==
  /\ ret.op = "advance"
  /\ Len(engine_calls) >= 2
  /\ ~engine_calls[Len(engine_calls) - 1].ok
  /\ ~engine_calls[Len(engine_calls)].ok

\* the part of C7 about the retry alone: one retry, same window, fresh engine
RetryExactlyOnce ==
  ret.op = "advance" =>
    \A i \in DOMAIN engine_calls :
      ~engine_calls[i].ok =>
        \/ /\ i < Len(engine_calls)
           /\ (i > 1 => engine_calls[i - 1].ok)
           /\ engine_calls[i + 1].fresh
           /\ engine_calls[i + 1].start = engine_calls[i].start
           /\ engine_calls[i + 1].stop = engine_calls[i].stop
        \/ /\ i = Len(engine_calls)
           /\ i > 1
           /\ ~engine_calls[i - 1].ok

\* C7: when the engine call of a sub-step fails it is repeated once, for the
\* same window, on a freshly reset engine; when the retry fails too, advance
\* returns a triple of status 500 instead of raising, and makes no third
\* attempt.
C7_RetryOnceThenStatus500 ==
  /\ RetryExactlyOnce
  /\ (RetryFailed => (ret.status = 500 /\ ret.exc = ""))

\* C8: when the warm-up engine call of initialize(start_time > 0) fails,
\* initialize returns status 500 with a null payload under both back-ends
\* and leaves clock, histories and CarryState as they were before the call.
C8_WarmupFailureIsClean ==
  [][(/\ ret'.op = "initialize"
      /\ engine_calls' # <<>>
      /\ ~engine_calls'[1].ok)
        => (/\ ret'.status = 500
            /\ ret'.payload = NullPayload
            /\ UNCHANGED <<start_time, y_store, u_store,
                           P_chillers_sum>>)]_vars

\* C9: CarryState is carried from one advance to the next (the first
\* sub-step of an advance computes the mass flow from the value the previous
\* operation left, and a successful advance leaves the chiller powers of
\* its last sub-step), it is 0 immediately after a successful initialize,
\* and only advance and initialize change it.
C9_CarryStatePersists ==
  [][/\ (ret'.op = "advance" /\ sub_steps' # <<>> /\ sub_steps'[1].composed)
          => /\ sub_steps'[1].P_read = P_chillers_sum
             /\ sub_steps'[1].Mcw =
                  calc_Mcw(sub_steps'[1].Mchw.v, P_chillers_sum,
                           sub_steps'[1].Tchw_r.v,
                           sub_steps'[1].Tchws_set_CHI)
     /\ (ret'.op = "advance" /\ ret'.status = 200)
          => P_chillers_sum' = y'["Pchi1"].v + y'["Pchi2"].v + y'["Pchi3"].v
                                 + y'["Pchi4"].v + y'["Pchi5"].v
                                 + y'["Pchi6"].v
     /\ (ret'.op = "initialize" /\ ret'.status = 200) => P_chillers_sum' = 0
     /\ P_chillers_sum' # P_chillers_sum
          => ret'.op \in {"advance", "initialize"}]_vars

\* an advance with controls has computed its mass flow from the chiller
\* power the previous advance left, and a later successful initialize has
\* reset it
C9_Witness ==
  /\ ret.op = "advance"
  /\ ret.status = 200
  /\ sub_steps[1].composed
  /\ sub_steps[1].P_read = 651000
  /\ sub_steps[1].Mcw = sub_steps[1].Mchw.v + 31

\* C10: after a successful initialize followed by k successful advance calls
\* (any positive step), every input and output history, 'time' included,
\* has exactly k entries.
C10_HistoriesGrowByOne ==
  session.valid => HistoriesHave(session.k)

\* two successful advances since the last successful initialize, the second
\* of several sub-steps
C10_Witness ==
  /\ session.valid
  /\ session.k = 2
  /\ ret.op = "advance"
  /\ Len(sub_steps) = 2
  /\ HistoriesHave(2)

\* the last operation was an accepted initialize with start_time = 0
InitializeAtZero ==
  /\ InitializeSucceeded
  /\ ToFloat(args[1]).val = 0

\* C11: initialize(0) with a valid end_time returns status 200 with a payload
\* equal, field for field, to row 0 of Initialization_observation0, and
\* makes no engine call.
C11_InitializeAtZeroReturnsRow0 ==
  InitializeAtZero =>
    /\ ret.payload.k = "dict"
    /\ DOMAIN ret.payload.z = DOMAIN initialization_obs0
    /\ \A key \in DOMAIN initialization_obs0 :
         ret.payload.z[key] = Num(initialization_obs0[key])
    /\ engine_calls = <<>>

\* initialize(0) was accepted on an object whose clock an earlier run had
\* moved, and returned the supply-temperature set-point of row 0
C11_Witness ==
  /\ InitializeAtZero
  /\ start_time > 0
  /\ ret.payload.z["Tchws_set_CHI"] = Num(initialization_obs0["Tchws_set_CHI"])

\* the last operation was an accepted initialize(s) with s > 0 that found
\* its rows in the tables
InitializeWithWarmup ==
  /\ ret.op = "initialize"
  /\ InitializeRejection(args[1], EndArg(args[2])) = ""
  /\ ToFloat(args[1]).val > 0
  /\ ret.exc \notin {"IndexError", "KeyError"}

\* the inputs C12 names for the warm-up of initialize(s): the warm-start
\* action row and the disturbance row for s - 300
WarmupInputs(s) ==
  [key \in input_names |->
     IF key \in DisturbanceNames THEN disturbance_data[s - 300][key]
     ELSE initialization_actions[(s - 300) \div 300][key]]

\* the warm-up of the last initialize was one engine call for [s - 300, s]
\* with the inputs C12 names
OneWarmupCall ==
  /\ Len(engine_calls) = 1
  /\ engine_calls[1].start = ToFloat(args[1]).val - 300
  /\ engine_calls[1].stop = ToFloat(args[1]).val
  /\ engine_calls[1].given = WarmupInputs(ToFloat(args[1]).val)

\* C12: for every valid start_time s > 0, initialize(s) makes exactly one
\* engine call, for the window [s - 300, s], whose inputs are the warm-start
\* action row and the disturbance row for timestamp s - 300.
C12_OneWarmupCallFromRows ==
  InitializeWithWarmup => OneWarmupCall

\* what holds of C12: under the PyFMI back-end the warm-up is that one call
WarmupCallUnderPyfmi ==
  (InitializeWithWarmup /\ ~FMPY_AVAILABLE) => OneWarmupCall

\* under either back-end initialize(s > 0) makes exactly one engine call
WarmupIsOneCall ==
  InitializeWithWarmup => Len(engine_calls) = 1

\* the last operation was a successful initialize(s) with s > 0
WarmupSucceeded ==
  /\ InitializeSucceeded
  /\ ToFloat(args[1]).val > 0

\* the current value of every channel and the returned snapshot are the
\* final sample res of an engine run
CurrentStateIs(res) ==
  /\ \A key \in YKeys : y[key] = Num(res[key])
  /\ \A key \in UKeys : u[key] = Num(res[key])
  /\ ret.payload = DictPayload([key \in YKeys \cup UKeys |-> Num(res[key])])

\* C13: immediately after a successful initialize(s > 0) every channel
\* history is empty, while the current value of every channel and the
\* returned snapshot hold the sample the warm-up engine call produced.
C13_WarmupSampleNotInHistory ==
  WarmupSucceeded =>
    /\ HistoriesHave(0)
    /\ Len(engine_calls) = 1
    /\ \E pw \in DOMAIN PowerSamples :
         CurrentStateIs(EngineResult(engine_calls[1].stop, pw,
                                     engine_calls[1].given))

\* a warm-up initialize succeeded with an engine sample of non-zero chiller
\* power: the snapshot shows it and the histories are empty
C13_Witness ==
  /\ WarmupSucceeded
  /\ ret.payload.z["Pchi1"] = Num(400000)
  /\ y["Pchi1"] = Num(400000)
  /\ y_store["Pchi1"] = <<>>
  /\ u_store["time"] = <<>>

\* the engine did not fail for good in the operation that leads to the next
\* state: its last call, if any, succeeded
EngineWorked ==
  engine_calls' = <<>> \/ engine_calls'[Len(engine_calls')].ok

\* C14: advance({}) with step = 300 composes the engine input from the
\* disturbance row at the current timestamp and the estimated required
\* head; it succeeds if the disturbance table has a row for that timestamp
\* and fails otherwise.
C14_EmptyControlsUseDisturbances ==
  [][(ret'.op = "advance" /\ DOMAIN args' = {} /\ step = 300)
       => /\ (start_time \in DisturbanceTimes /\ EngineWorked)
               => /\ ret'.status = 200
                  /\ Len(engine_calls') >= 1
                  /\ DisturbanceNames \cup {"Head_required"}
                       \subseteq Range(engine_calls'[1].u_list)
          /\ start_time \notin DisturbanceTimes => ret'.status # 200]_vars

\* what the code does instead: advance({}) hands the engine no input object
\* at all and reads no disturbance row
EmptyControlsGiveNoInput ==
  [][(ret'.op = "advance" /\ DOMAIN args' = {})
       => \A i \in DOMAIN engine_calls' :
            /\ engine_calls'[i].u_list = <<>>
            /\ engine_calls'[i].given = <<>>]_vars

\* x is 0 or a positive multiple of 300
StepAcceptable(x) ==
  /\ ToFloat(x).ok
  /\ ToFloat(x).val >= 0
  /\ ToFloat(x).val % 300 = 0

\* C15: set_step(x) returns status 400 and leaves the step unchanged when x
\* is not a number, is negative or is not a multiple of 300; for x equal to
\* 0 or a positive multiple of 300 it returns status 200 and a following
\* get_step returns x.
C15_SetStepValidates ==
  [][/\ (ret'.op = "set_step" /\ ~StepAcceptable(args'))
          => (ret'.status = 400 /\ step' = step)
     /\ (ret'.op = "set_step" /\ StepAcceptable(args'))
          => (ret'.status = 200 /\ step' = ToFloat(args').val)
     /\ (ret.op = "set_step" /\ ret.status = 200 /\ ret'.op = "get_step")
          => (ret'.status = 200 /\ ret'.payload.v = ToFloat(args).val)]_vars

\* get_step has returned 600, which only an accepted set_step(600) stores
C15_Witness ==
  /\ ret.op = "get_step"
  /\ ret.status = 200
  /\ ret.payload.v = 600

\* C16: the control step changes only through a successful set_step;
\* get_step returns it, and initialize (accepted or rejected), advance and
\* get_results leave it as it is, so an advance after initialize runs with
\* the step that was set before.
C16_StepChangesOnlyBySetStep ==
  [][/\ step' # step => (ret'.op = "set_step" /\ ret'.status = 200)
     /\ ret'.op = "get_step" => (ret'.payload.v = step /\ step' = step)
     /\ (ret'.op = "advance" /\ ret'.status = 200)
          => /\ start_time' = start_time + step
             /\ Len(sub_steps') = iteration_num(step)]_vars

\* an initialize was accepted on an object whose step an earlier set_step
\* had changed to 600, and the step is still 600
C16_Witness ==
  /\ InitializeSucceeded
  /\ step = 600
  /\ step # DefaultStep

\* the names get_results knows: the output channels, the input channels
\* that are neither disturbances nor Head_required, and 'time'
KnownPointNames == output_names \cup input_names_without_distubance \cup {"time"}

\* C17: get_results with a point_names list that contains a name that is
\* neither a known output nor a known input channel returns status 400 with
\* a null payload and changes no history, wherever the name stands in the
\* list.
C17_UnknownPointRejected ==
  [][(/\ ret'.op = "get_results"
      /\ \E i \in DOMAIN args'[1] : args'[1][i] \notin KnownPointNames)
        => (/\ ret'.status = 400
            /\ ret'.payload = NullPayload
            /\ UNCHANGED <<y_store, u_store>>)]_vars

\* a query with an unknown name between two known ones was rejected on an
\* object with a non-empty history
C17_Witness ==
  /\ ret.op = "get_results"
  /\ ret.status = 400
  /\ args[1] = <<"Pchi1", "nope", "CHI01">>
  /\ Len(y_store["Pchi1"]) >= 1

\* the last call was a get_results that got as far as its slicing loop:
\* numeric bounds, known names, and a window found in a non-empty history
QueryReachesSlicing ==
  /\ ret.op = "get_results"
  /\ ToFloat(args[2]).ok
  /\ ToFloat(args[3]).ok
  /\ args[1] # <<>>
  /\ \A i \in DOMAIN args[1] : args[1][i] \in KnownPointNames
  /\ ResultsWindow(ResultsTime(Self, args[1]),
                   ToFloat(args[2]).val, ToFloat(args[3]).val).exc = ""

\* the stored history a key of the payload is taken from
StoredHistory(key) ==
  IF key = "time" THEN ResultsTime(Self, args[1])
  ELSE IF key \in YKeys THEN y_store[key] ELSE u_store[key]

SlicesShareOneRangeWithoutTime ==
  (QueryReachesSlicing /\ \A i \in DOMAIN args[1] : args[1][i] # "time") =>
    LET w == ResultsWindow(ResultsTime(Self, args[1]),
                           ToFloat(args[2]).val, ToFloat(args[3]).val)
        sliced == ResultsPayload(Self, args[1], w.i1, w.i2)
    IN \A key \in DOMAIN sliced :
         sliced[key] = Slice(StoredHistory(key), w.i1, w.i2)

\* positions (from 1) of the first stored timestamp >= start and of the last
\* stored timestamp <= final
FirstAtOrAfter(times, start) ==
  CHOOSE i \in DOMAIN times :
    times[i] >= start /\ \A j \in 1..(i - 1) : times[j] < start
LastAtOrBefore(times, final) ==
  CHOOSE i \in DOMAIN times :
    times[i] <= final /\ \A j \in (i + 1)..Len(times) : times[j] > final

\* C19: get_results over a non-empty history returns the window from the
\* first stored timestamp >= start_time to the last stored timestamp
\* <= final_time.
C19_WindowReturned ==
  QueryReachesSlicing =>
    LET times == ResultsTime(Self, args[1])
        j1 == FirstAtOrAfter(times, ToFloat(args[2]).val)
        j2 == LastAtOrBefore(times, ToFloat(args[3]).val)
    IN /\ ret.status = 200
       /\ ret.payload =
            DictPayload([key \in Range(args[1]) \cup {"time"} |->
                           SubSeq(StoredHistory(key), j1, j2)])

\* the index range get_results computes is the one of that window
WindowEdgesAreFirstAndLast ==
  QueryReachesSlicing =>
    LET times == ResultsTime(Self, args[1])
        w == ResultsWindow(times, ToFloat(args[2]).val, ToFloat(args[3]).val)
    IN /\ w.i1 = FirstAtOrAfter(times, ToFloat(args[2]).val) - 1
       /\ w.i2 = LastAtOrBefore(times, ToFloat(args[3]).val)

\* and what a query that got this far does is raise
QueryThatReachesSlicingRaises ==
  QueryReachesSlicing => (ret.status = 0 /\ ret.exc = "AttributeError")

\* the object as the constructor leaves it
Constructed ==
  [ step |-> DefaultStep, start_time |-> 0, end_time |-> Unset,
    initialize_fmu |-> TRUE,
    y |-> [key \in YKeys |-> EmptyList],
    u |-> [key \in UKeys |-> EmptyList],
    y_store |-> [key \in YKeys |-> <<>>],
    u_store |-> [key \in UKeys |-> <<>>],
    P_chillers_sum |-> 0, engine_calls |-> <<>>, sub_steps |-> <<>> ]

\* the object after one whole request served alone on self
Served(self, op) ==
  LET fresh == [self EXCEPT !.engine_calls = <<>>, !.sub_steps = <<>>]
  IN IF op = "advance"
     THEN advance(FMPY_AVAILABLE, fmu_default_stop, input_keys, fresh,
                  GatewayControls,
                  [j \in 1..iteration_num(self.step) |-> EngineSucceeds]).self
     ELSE initialize(FMPY_AVAILABLE, fmu_default_stop, input_keys, fresh,
                     Str("0"), Num(MAX_HORIZON), NoEngine).self

\* the clock, the CarryState and the histories of an object
ClockCarryHistories(self) ==
  << self.start_time, self.end_time, self.P_chillers_sum, self.initialize_fmu,
     self.y_store, self.u_store >>

BothDone == \A r \in Requests : requests[r].pc = "done"

\* some serial execution of the two requests leaves the object as it is
EqualsSomeSerialExecution ==
  \E first \in Requests :
    \E second \in Requests \ {first} :
      ClockCarryHistories(Self) =
        ClockCarryHistories(Served(Served(Constructed, requests[first].op),
                                   requests[second].op))

\* C20: for any interleaving of two overlapping advance/initialize requests
\* arriving through the gateway, the resulting clock, CarryState and
\* histories equal those of some serial execution of the two.
C20_OverlappingRequestsSerialize ==
  BothDone => EqualsSomeSerialExecution

\* two requests of which neither arrived while the other was in flight do
\* leave what a serial execution leaves
RequestsInTurnSerialize ==
  (BothDone /\ \A r \in Requests : ~requests[r].overlaps)
    => EqualsSomeSerialExecution

\* two overlapping advances with step s leave the clock advanced by s, not
\* by 2s, with both samples stored at the same timestamp
OverlappingAdvancesLoseAStep ==
  /\ BothDone
  /\ \A r \in Requests : requests[r].op = "advance"
  /\ start_time = step
  /\ y_store["time"] = <<step, step>>

\* the last operation was an advance that composed its input object and
\* whose every sub-step reached the engine
ComposedAdvance ==
  /\ ret.op = "advance"
  /\ sub_steps # <<>>
  /\ Len(engine_calls) = Len(sub_steps)
  /\ \A i \in DOMAIN sub_steps : sub_steps[i].composed

\* the required head at the end of the trajectory of sub-step i
HeadInTrajectory(i) ==
  engine_calls[i].u_trajectory[Len(engine_calls[i].u_trajectory)]

\* C21: in every sub-step of advance the Head_required value handed to the
\* engine is the caller's value whenever the control mapping supplies
\* Head_required and the estimator's output otherwise, and the estimator is
\* not consulted when the caller supplied the value.
C21_CallerHeadTakesPrecedence ==
  ComposedAdvance =>
    \A i \in DOMAIN sub_steps :
      IF "Head_required" \in DOMAIN args
      THEN /\ HeadInTrajectory(i) = ToFloat(args["Head_required"]).val
           /\ ~sub_steps[i].estimated
      ELSE /\ HeadInTrajectory(i) = sub_steps[i].Head_estimated
           /\ sub_steps[i].estimated

\* the part of C21 about the value alone: the caller's when supplied, the
\* estimator's otherwise
HeadInTrajectoryIsCallersOrEstimated ==
  ComposedAdvance =>
    \A i \in DOMAIN sub_steps :
      HeadInTrajectory(i) =
        IF "Head_required" \in DOMAIN args
        THEN ToFloat(args["Head_required"]).val
        ELSE sub_steps[i].Head_estimated

\* and the estimator is called in every composed sub-step
EstimatorAlwaysCalled ==
  ComposedAdvance => \A i \in DOMAIN sub_steps : sub_steps[i].estimated

\* C22: advance runs exactly ceil(step / 300) sub-steps; sub-step i starts
\* at current_time + 300*i, every sub-step but the last is 300 seconds long,
\* the last ends at current_time + step, and the windows tile
\* [current_time, current_time + step] without gap or overlap.
C22_SubStepsTileTheStep ==
  [][(ret'.op = "advance" /\ ret'.status = 200) =>
       LET n == Len(sub_steps')
       IN /\ sim_interval * (n - 1) < step
          /\ step <= sim_interval * n
          /\ \A i \in 1..n :
               /\ sub_steps'[i].start = start_time + sim_interval * (i - 1)
               /\ i < n => /\ sub_steps'[i].final
                                = sub_steps'[i].start + sim_interval
                           /\ sub_steps'[i + 1].start = sub_steps'[i].final
               /\ i = n => sub_steps'[i].final = start_time + step]_vars

\* a successful advance of two sub-steps
C22_Witness ==
  /\ ret.op = "advance"
  /\ ret.status = 200
  /\ step = 2 * sim_interval
  /\ Len(sub_steps) = 2
  /\ sub_steps[2].final = start_time

\* the step to the next state is an advance that composes its input object,
\* is not stopped by its controls or the engine, and needs the disturbance
\* row of a timestamp the table does not have
LookupFails ==
  /\ ret'.op = "advance"
  /\ DOMAIN args' # {}
  /\ ~ControlsRejected(args')
  /\ EngineWorked
  /\ \E i \in 0..(iteration_num(step) - 1) :
       start_time + sim_interval * i \notin DisturbanceTimes

\* C23: when a sub-step of advance needs a disturbance row that the table
\* does not have, advance returns an engine-layer error triple (status 500)
\* instead of raising, and the clock is not advanced.
C23_MissingRowIsEngineError ==
  [][LookupFails => (ret'.status = 500 /\ start_time' = start_time)]_vars

\* what the lookup failure does: advance raises KeyError; the clock stays
MissingRowRaisesKeyError ==
  [][LookupFails => (/\ ret'.status = 0
                     /\ ret'.exc = "KeyError"
                     /\ start_time' = start_time)]_vars

\* C24: every call of initialize, advance, get_step, set_step and
\* get_results returns a (status, message, payload) triple, with a null
\* payload whenever the status is not 200 except for engine failures, which
\* carry the diagnostic text; no call raises instead of returning.
C24_EveryCallReturnsATriple ==
  /\ ret.exc = ""
  /\ ret.status \in {200, 400, 500}
  /\ ret.status = 400 => ret.payload = NullPayload
  /\ ret.status = 500 => ret.payload \in {NullPayload, TextPayload}

\* the calls that do return keep to the payload rule
ReturnedTriplesKeepThePayloadRule ==
  ret.exc = "" =>
    /\ ret.status \in {200, 400, 500}
    /\ ret.status = 400 => ret.payload = NullPayload
    /\ ret.status = 500 => ret.payload \in {NullPayload, TextPayload}

\* the exceptions that reach the caller, by operation
ExceptionsThatReachTheCaller ==
  ret.exc # "" =>
    \/ /\ ret.op = "advance"
       /\ ret.exc \in {"TypeError", "KeyError", "ValueError",
                       "ZeroDivisionError", "UnboundLocalError", "Exception",
                       "FMUException"}
    \/ /\ ret.op = "initialize"
       /\ ret.exc \in {"IndexError", "KeyError", "FMUException"}
    \/ /\ ret.op = "get_results"
       /\ ret.exc = "AttributeError"

\* advance({}) with step 0 raised UnboundLocalError
AdvanceWithStepZeroRaised ==
  /\ ret.op = "advance"
  /\ ret.exc = "UnboundLocalError"
  /\ step = 0
  /\ args = NoControls

\* the chilled-water supply set-point of the last advance: the caller's
\* Tchws_set_CHI if the control mapping has one, else the default
SetpointOf(u_in) ==
  IF "Tchws_set_CHI" \in DOMAIN u_in /\ u_in["Tchws_set_CHI"].t # "none"
  THEN ToFloat(u_in["Tchws_set_CHI"]).val ELSE DefaultTchwsSet

\* C25: in every advance sub-step the cooling-water mass flow passed to the
\* estimator is Mchw + (P_chillers_sum / (4200 * (Tchw_r - set-point))) / 1000
\* with the disturbance row's Mchw and Tchw_r: only the power term is
\* divided by 1000.  (Mass flows are counted in thousandths, temperatures in
\* hundredths of a kelvin.)
C25_OnlyPowerTermDividedBy1000 ==
  ComposedAdvance =>
    \A i \in DOMAIN sub_steps :
      LET row == disturbance_data[sub_steps[i].start]
      IN sub_steps[i].Mcw =
           1000 * row["Mchw"]
             + sub_steps[i].P_read
                 \div (42 * (row["Tchw_r"] - SetpointOf(args)))

\* what is passed: the whole sum divided by 1000, with the set-point rule
\* of the claim
WholeSumDividedBy1000 ==
  ComposedAdvance =>
    \A i \in DOMAIN sub_steps :
      LET row == disturbance_data[sub_steps[i].start]
      IN /\ sub_steps[i].Tchws_set_CHI = SetpointOf(args)
         /\ sub_steps[i].Mcw =
              row["Mchw"]
                + sub_steps[i].P_read
                    \div (42 * (row["Tchw_r"] - SetpointOf(args)))

\* a sub-step computed its mass flow from a caller's set-point and a carried
\* chiller power
CallerSetpointUsed ==
  /\ ComposedAdvance
  /\ "Tchws_set_CHI" \in DOMAIN args
  /\ sub_steps[1].Tchws_set_CHI = 28000
  /\ sub_steps[1].P_read = 651000
  /\ sub_steps[1].Mcw = sub_steps[1].Mchw.v + 13

\* the sum of the numeric entries of a control mapping under the first n
\* channels of a staging group; a missing or null entry counts as 0
RECURSIVE CountOf(_, _, _)
CountOf(u_in, channels, n) ==
  IF n = 0 THEN 0
  ELSE CountOf(u_in, channels, n - 1)
         + (IF channels[n] \in DOMAIN u_in /\ u_in[channels[n]].t = "num"
            THEN u_in[channels[n]].v ELSE 0)

\* C26: the staging counts passed to the estimator are the sum of
\* CHI01..CHI06, the sum of CHI01_CW3..CHI06_CW3 and twice the sum of
\* U_CT1..U_CT6, a channel missing from the control mapping or mapped to
\* null counting as 0.
C26_StagingCounts ==
  ComposedAdvance =>
    \A i \in DOMAIN sub_steps :
      /\ sub_steps[i].estimated
      /\ sub_steps[i].Head_estimated =
           calc_head_required(CountOf(args, ChillerChannels, 6),
                              CountOf(args, HeatExchangerChannels, 6),
                              2 * CountOf(args, CoolingTowerChannels, 6),
                              sub_steps[i].Mcw)

\* the estimator was called for a mapping with a null chiller, one chiller
\* and one cooling-tower valve
C26_Witness ==
  /\ ComposedAdvance
  /\ "CHI01" \in DOMAIN args
  /\ args["CHI01"] = None
  /\ sub_steps[1].estimated
  /\ sub_steps[1].Head_estimated =
       calc_head_required(1, 0, 2, sub_steps[1].Mcw)

\* C27: within an advance, after each successful sub-step P_chillers_sum is
\* the sum of the six per-chiller powers at the final sample of that
\* sub-step; the mass-flow computation of sub-step i+1 reads the value
\* written by sub-step i, and sub-step 0 reads the value left by the
\* previous advance, or 0 right after initialize.
C27_CarryStateThroughSubSteps ==
  [][/\ (ret'.op = "advance" /\ sub_steps' # <<>>) =>
          /\ \A i \in DOMAIN sub_steps' :
               /\ sub_steps'[i].composed =>
                    /\ sub_steps'[i].P_read =
                         IF i = 1 THEN P_chillers_sum
                         ELSE sub_steps'[i - 1].P_written
                    /\ sub_steps'[i].Mcw =
                         calc_Mcw(sub_steps'[i].Mchw.v, sub_steps'[i].P_read,
                                  sub_steps'[i].Tchw_r.v,
                                  sub_steps'[i].Tchws_set_CHI)
               /\ sub_steps'[i].P_written # Unset =>
                    sub_steps'[i].P_written =
                      sub_steps'[i].Pchi["Pchi1"] + sub_steps'[i].Pchi["Pchi2"]
                        + sub_steps'[i].Pchi["Pchi3"]
                        + sub_steps'[i].Pchi["Pchi4"]
                        + sub_steps'[i].Pchi["Pchi5"]
                        + sub_steps'[i].Pchi["Pchi6"]
          /\ sub_steps'[Len(sub_steps')].P_written # Unset =>
               P_chillers_sum' = sub_steps'[Len(sub_steps')].P_written
     /\ (ret'.op = "initialize" /\ ret'.status = 200) =>
          P_chillers_sum' = 0]_vars

\* an advance of two composed sub-steps where the second read the power the
\* first had written and wrote another
C27_Witness ==
  /\ ret.op = "advance"
  /\ ret.status = 200
  /\ Len(sub_steps) = 2
  /\ sub_steps[2].composed
  /\ sub_steps[1].P_read = 0
  /\ sub_steps[1].P_written = 651000
  /\ sub_steps[2].P_read = 651000
  /\ sub_steps[2].P_written = 0
  /\ P_chillers_sum = 0

\* C28: the final sample of every sub-step of an advance is appended to the
\* result store, so an advance with step = 300*n appends n samples to every
\* channel history.
C28_OneSamplePerSubStep ==
  [][(ret'.op = "advance" /\ ret'.status = 200) =>
       /\ \A key \in YKeys :
            Len(y_store'[key]) = Len(y_store[key]) + Len(sub_steps')
       /\ \A key \in UKeys :
            Len(u_store'[key]) = Len(u_store[key]) + Len(sub_steps')]_vars

\* what is appended: one sample per advance, the final sample of the last
\* engine run
OneSamplePerAdvance ==
  [][(ret'.op = "advance" /\ ret'.status = 200) =>
       /\ \A key \in YKeys :
            Len(y_store'[key]) = Len(y_store[key]) + 1
       /\ \A key \in UKeys :
            Len(u_store'[key]) = Len(u_store[key]) + 1
       /\ y_store'["time"][Len(y_store'["time"])]
            = engine_calls'[Len(engine_calls')].stop]_vars

\* the value the composed trajectory of an engine call carries for a
\* channel: the one at the channel's first place in u_list
TrajectoryValue(call, key) ==
  call.u_trajectory[1 + CHOOSE j \in DOMAIN call.u_list :
                          /\ call.u_list[j] = key
                          /\ \A k \in 1..(j - 1) : call.u_list[k] # key]

\* the step to the next state is an advance that composes its input object
\* and finds the disturbance row of every sub-step
RowsAvailable ==
  /\ ret'.op = "advance"
  /\ DOMAIN args' # {}
  /\ \A i \in 0..(iteration_num(step) - 1) :
       start_time + sim_interval * i \in DisturbanceTimes

\* C29: the disturbance channels Twb_outside, Mchw and Tchw_r of the
\* composed trajectory always carry the DisturbanceTable value, and the
\* mass-flow computation always uses the table's Mchw and Tchw_r, even when
\* the caller's control mapping has an entry under one of those names.
C29_DisturbancesComeFromTheTable ==
  [][RowsAvailable =>
       /\ Len(sub_steps') = iteration_num(step)
       /\ Len(engine_calls') = iteration_num(step)
       /\ \A i \in DOMAIN sub_steps' :
            LET row == disturbance_data[sub_steps'[i].start]
            IN /\ \A key \in DisturbanceNames :
                    /\ key \in Range(engine_calls'[i].u_list)
                    /\ TrajectoryValue(engine_calls'[i], key) = row[key]
               /\ sub_steps'[i].Mchw = Num(row["Mchw"])
               /\ sub_steps'[i].Tchw_r = Num(row["Tchw_r"])]_vars

\* the same for the control mappings without an entry under the name of a
\* disturbance channel
DisturbancesComeFromTheTableUnlessSupplied ==
  [][(RowsAvailable /\ DOMAIN args' \cap DisturbanceNames = {}) =>
       /\ Len(sub_steps') = iteration_num(step)
       /\ Len(engine_calls') = iteration_num(step)
       /\ \A i \in DOMAIN sub_steps' :
            LET row == disturbance_data[sub_steps'[i].start]
            IN /\ \A key \in DisturbanceNames :
                    /\ key \in Range(engine_calls'[i].u_list)
                    /\ TrajectoryValue(engine_calls'[i], key) = row[key]
               /\ sub_steps'[i].Mchw = Num(row["Mchw"])
               /\ sub_steps'[i].Tchw_r = Num(row["Tchw_r"])]_vars

\* what an entry under the name of a disturbance channel does: the
\* trajectory carries the caller's value, and the mass-flow computation is
\* left without the table's Mchw or Tchw_r and raises
CallerEntryReplacesTheTable ==
  ret.op = "advance" =>
    /\ ("Mchw" \in DOMAIN args \/ "Tchw_r" \in DOMAIN args)
         => (ret.exc = "TypeError" /\ engine_calls = <<>>)
    /\ ("Twb_outside" \in DOMAIN args /\ ComposedAdvance)
         => \A i \in DOMAIN engine_calls :
              TrajectoryValue(engine_calls[i], "Twb_outside")
                = ToFloat(args["Twb_outside"]).val

\* C30: in sub-step i (0-based) of an advance that starts at current_time t,
\* every disturbance value is looked up at timestamp t + 300*i, the start of
\* that sub-step's own window, not at the start of the whole advance.
C30_DisturbanceRowOfTheSubStep ==
  [][(RowsAvailable /\ DOMAIN args' \cap DisturbanceNames = {}) =>
       /\ Len(sub_steps') = iteration_num(step)
       /\ Len(engine_calls') = iteration_num(step)
       /\ \A i \in 0..(iteration_num(step) - 1) :
            LET row == disturbance_data[start_time + sim_interval * i]
            IN /\ sub_steps'[i + 1].Mchw = Num(row["Mchw"])
               /\ sub_steps'[i + 1].Tchw_r = Num(row["Tchw_r"])
               /\ \A key \in DisturbanceNames :
                    TrajectoryValue(engine_calls'[i + 1], key) = row[key]]_vars

\* an advance of two sub-steps that took the row of 0 for the first and the
\* row of 300 for the second
C30_Witness ==
  /\ ComposedAdvance
  /\ Len(sub_steps) = 2
  /\ sub_steps[1].start = 0
  /\ sub_steps[1].Mchw = Num(disturbance_data[0]["Mchw"])
  /\ sub_steps[2].Mchw = Num(disturbance_data[sim_interval]["Mchw"])
  /\ disturbance_data[0]["Mchw"] # disturbance_data[sim_interval]["Mchw"]
  /\ TrajectoryValue(engine_calls[2], "Twb_outside")
       = disturbance_data[sim_interval]["Twb_outside"]

\* the step to the next state is an advance whose engine failed in an
\* attempt and in the retry that followed
AdvanceFailsAfterRetry ==
  /\ ret'.op = "advance"
  /\ Len(engine_calls') >= 2
  /\ ~engine_calls'[Len(engine_calls') - 1].ok
  /\ ~engine_calls'[Len(engine_calls')].ok

\* such an advance rolls nothing back: the clock and the histories are the
\* ones from before the advance, and P_chillers_sum is what the sub-step
\* before the failing one wrote
NothingRolledBack ==
  AdvanceFailsAfterRetry =>
    /\ start_time' = start_time
    /\ y_store' = y_store
    /\ u_store' = u_store
    /\ sub_steps' # <<>>
    /\ P_chillers_sum' =
         IF Len(sub_steps') = 1 THEN P_chillers_sum
         ELSE sub_steps'[Len(sub_steps') - 1].P_written

\* a successful initialize that follows a failed advance leaves the clock at
\* its start_time, empty histories and CarryState 0
InitializeRestores ==
  (RetryFailed /\ ret'.op = "initialize" /\ ret'.status = 200) =>
    /\ start_time' = ToFloat(args'[1]).val
    /\ \A key \in YKeys : y_store'[key] = <<>>
    /\ \A key \in UKeys : u_store'[key] = <<>>
    /\ P_chillers_sum' = 0

\* C31: if the engine fails (after its retry) on sub-step k of an advance,
\* nothing is rolled back: current_time is the value from before the
\* advance, no sample has been appended, and P_chillers_sum holds the value
\* written by sub-step k-1; a following successful initialize restores a
\* consistent state (clock reset, histories empty, CarryState 0).
C31_NoRollbackThenInitializeRestores ==
  [][NothingRolledBack /\ InitializeRestores]_vars

\* the first half of C31 alone
FailedAdvanceRollsNothingBack ==
  [][NothingRolledBack]_vars

\* the second half for an initialize with warm-up
WarmupInitializeRestores ==
  [][(ret'.op = "initialize" /\ ret'.status = 200
       /\ ToFloat(args'[1]).val > 0) => InitializeRestores]_vars

\* an advance failed in its second sub-step after the first had written a
\* chiller power
FailedInSecondSubStep ==
  /\ RetryFailed
  /\ Len(sub_steps) = 2
  /\ sub_steps[1].P_written = 651000
  /\ P_chillers_sum = 651000

\* the engine calls of the last advance simulate the windows of its
\* sub-steps: each call has the window of a sub-step, every sub-step has a
\* call, and without retries the i-th call has the window of the i-th
\* sub-step
CallsSimulateTheSubStepWindows ==
  /\ \A j \in DOMAIN engine_calls :
       \E i \in DOMAIN sub_steps :
         /\ engine_calls[j].start = sub_steps[i].start
         /\ engine_calls[j].stop = sub_steps[i].final
  /\ \A i \in DOMAIN sub_steps :
       \E j \in DOMAIN engine_calls :
         /\ engine_calls[j].start = sub_steps[i].start
         /\ engine_calls[j].stop = sub_steps[i].final
  /\ Len(engine_calls) = Len(sub_steps) =>
       \A i \in DOMAIN sub_steps :
         /\ engine_calls[i].start = sub_steps[i].start
         /\ engine_calls[i].stop = sub_steps[i].final

\* C32: every engine invocation made for a sub-step simulates exactly that
\* sub-step's window: the start and stop times handed to the solver equal
\* the sub-step's start and end timestamps, for every window length,
\* including windows longer than the engine's default experiment stop time
\* on the FMPy back-end.
C32_EngineWindowIsSubStepWindow ==
  ret.op = "advance" => CallsSimulateTheSubStepWindows

\* the same where no window is longer than the default stop time of FMPy
WindowKeptUnlessLongerThanDefaultStop ==
  (ret.op = "advance"
   /\ (FMPY_AVAILABLE => fmu_default_stop >= sim_interval))
    => CallsSimulateTheSubStepWindows

\* under FMPy a window longer than the default stop time is cut to 80% of
\* that stop time
LongWindowIsCut ==
  (ret.op = "advance" /\ FMPY_AVAILABLE /\ fmu_default_stop < sim_interval) =>
    \A j \in DOMAIN engine_calls :
      engine_calls[j].stop
        = engine_calls[j].start + (fmu_default_stop * 8) \div 10

\* an engine call is given every channel of its u_list, each with a value
\* the composed trajectory has for it
GivenEveryComposedValue(call) ==
  \A key \in Range(call.u_list) \ {"time"} :
    /\ key \in DOMAIN call.given
    /\ \E j \in DOMAIN call.u_list :
         /\ call.u_list[j] = key
         /\ call.given[key] = call.u_trajectory[j + 1]

\* C33: the two engine back-ends receive the same inputs: for every composed
\* trajectory the name-to-value mapping handed to the FMPy back-end contains
\* every channel of u_list mapped to that channel's composed value, exactly
\* as the PyFMI back-end receives them; no channel is dropped and no channel
\* is given the timestamp as its value.
C33_BackEndsReceiveTheSameInputs ==
  \A j \in DOMAIN engine_calls : GivenEveryComposedValue(engine_calls[j])

\* the PyFMI back-end is given every composed value
PyfmiReceivesTheTrajectory ==
  ~FMPY_AVAILABLE =>
    \A j \in DOMAIN engine_calls : GivenEveryComposedValue(engine_calls[j])

\* what the FMPy back-end is given from a composed trajectory of an advance:
\* the first channel only, with the timestamp as its value
FmpyReceivesTheTimestamp ==
  (FMPY_AVAILABLE /\ ret.op = "advance") =>
    \A j \in DOMAIN engine_calls :
      engine_calls[j].u_list # <<>> =>
        /\ DOMAIN engine_calls[j].given = {engine_calls[j].u_list[1]}
        /\ engine_calls[j].given[engine_calls[j].u_list[1]]
             = engine_calls[j].u_trajectory[1]

\* the step to the next state is an advance with the control step at 0 whose
\* staging sums can be formed
AdvanceWithStepZero ==
  /\ ret'.op = "advance"
  /\ step = 0
  /\ chiller_count(args').t # "TypeError"
  /\ heat_exchanger_count(args').t # "TypeError"
  /\ cooling_tower_valve_count(args').t # "TypeError"

\* such an advance runs no sub-step, calls no engine and changes nothing
StepZeroChangesNothing ==
  /\ sub_steps' = <<>>
  /\ engine_calls' = <<>>
  /\ UNCHANGED <<step, start_time, end_time, initialize_fmu, y, u, y_store,
                 u_store, P_chillers_sum>>

\* C34: with the control step set to 0 (a value set_step accepts), advance
\* runs zero sub-steps, makes no engine call, and returns a (status,
\* message, payload) triple with current_time, CarryState and histories
\* unchanged, also when it is the first advance after construction or
\* initialize.
C34_StepZeroAdvanceReturnsATriple ==
  [][AdvanceWithStepZero =>
       /\ StepZeroChangesNothing
       /\ ret'.exc = ""
       /\ ret'.status # 0]_vars

\* the part of C34 about the state
StepZeroAdvanceChangesNothing ==
  [][AdvanceWithStepZero => StepZeroChangesNothing]_vars

\* what such an advance does instead of returning
StepZeroAdvanceRaises ==
  [][AdvanceWithStepZero => ret'.exc = "UnboundLocalError"]_vars

\* the last call is a get_results for known point names over a non-empty
\* history, with a window that contains a stored timestamp
QueryOverStoredWindow ==
  /\ ret.op = "get_results"
  /\ ToFloat(args[2]).ok
  /\ ToFloat(args[3]).ok
  /\ args[1] # <<>>
  /\ \A i \in DOMAIN args[1] : args[1][i] \in KnownPointNames
  /\ \E i \in DOMAIN y_store["time"] :
       /\ ToFloat(args[2]).val <= y_store["time"][i]
       /\ y_store["time"][i] <= ToFloat(args[3]).val

\* C35: get_results called with known point names over a non-empty history
\* and a window that contains at least one stored timestamp returns status
\* 200 with one plain sequence per requested name plus 'time'; it never
\* returns 500 or raises for such a request.
C35_QueryOverHistoryReturns200 ==
  QueryOverStoredWindow =>
    /\ ret.exc = ""
    /\ ret.status = 200
    /\ ret.payload.k = "dict"
    /\ DOMAIN ret.payload.z = Range(args[1]) \cup {"time"}

\* what such a query does: it gets past the slicing and raises
QueryOverStoredWindowRaises ==
  QueryOverStoredWindow =>
    /\ QueryReachesSlicing
    /\ ret.status = 0
    /\ ret.exc = "AttributeError"

\* a query for two channels and 'time' over a history of several samples,
\* with a window that holds one of them
QueryOverSeveralSamples ==
  /\ QueryOverStoredWindow
  /\ Len(y_store["time"]) >= 2
  /\ Len(args[1]) = 3
  /\ ToFloat(args[2]).val = 450

\* the calls of the next state that are first attempts: the first call of
\* the handler and every call that follows a successful one
FirstAttempts ==
  {j \in DOMAIN engine_calls' : j = 1 \/ engine_calls'[j - 1].ok}

\* the next state is an advance, within a run started by a successful
\* initialize, that calls the engine
AdvanceCallsEngine ==
  /\ session.valid
  /\ ret'.op = "advance"
  /\ engine_calls' # <<>>

\* the engine has been called since the last successful initialize: by its
\* warm-up, or by the advance that was the last operation
CalledSinceInitialize ==
  \/ InitializeSucceeded /\ engine_calls # <<>>
  \/ ret.op = "advance" /\ engine_calls # <<>>

\* the first engine call after a successful initialize is made with
\* initialize = true
FirstCallInitializes ==
  /\ (ret'.op = "initialize" /\ ret'.status = 200 /\ engine_calls' # <<>>)
       => engine_calls'[1].initialize
  /\ (AdvanceCallsEngine /\ InitializeSucceeded /\ engine_calls = <<>>)
       => engine_calls'[1].initialize

\* every later first attempt is made with initialize = false, and a call
\* that follows a failed one, a retry, re-initializes the engine
LaterCallsDoNotInitialize ==
  AdvanceCallsEngine =>
    /\ CalledSinceInitialize => ~engine_calls'[1].initialize
    /\ \A j \in FirstAttempts : j > 1 => ~engine_calls'[j].initialize
    /\ \A j \in DOMAIN engine_calls' \ FirstAttempts :
         engine_calls'[j].initialize

\* C36: the engine-initialization flag follows initialize: the first engine
\* call after any successful initialize (the warm-up call for start_time > 0,
\* the first advance sub-step for start_time = 0) is made with initialize =
\* true, and every later first-attempt engine call before the next
\* initialize is made with initialize = false; only a retry after a failure
\* re-initializes the engine.
C36_InitializeFlagFollowsInitialize ==
  [][FirstCallInitializes /\ LaterCallsDoNotInitialize]_vars

\* the first half of C36 alone
FirstCallAfterInitializeInitializes ==
  [][FirstCallInitializes]_vars

\* what the PyFMI back-end does: a first attempt is made with the flag
\* initialize_fmu, which is true after initialize and until an engine call of
\* an advance or of a warm-up has succeeded, and a retry with initialize =
\* true
PyfmiFlagFollowsSuccess ==
  [][~FMPY_AVAILABLE =>
       /\ (ret'.op = "advance" /\ engine_calls' # <<>>) =>
            /\ engine_calls'[1].initialize = initialize_fmu
            /\ \A j \in FirstAttempts : j > 1 => ~engine_calls'[j].initialize
            /\ \A j \in DOMAIN engine_calls' \ FirstAttempts :
                 engine_calls'[j].initialize
            /\ initialize_fmu' =
                 (initialize_fmu /\ \A j \in DOMAIN engine_calls' :
                                       ~engine_calls'[j].ok)
       /\ (ret'.op = "initialize" /\ ret'.status = 200) =>
            initialize_fmu' = (engine_calls' = <<>>)]_vars

\* what the FMPy back-end does: every call starts from a newly initialized
\* engine
FmpyAlwaysInitializes ==
  FMPY_AVAILABLE =>
    \A j \in DOMAIN engine_calls :
      engine_calls[j].initialize /\ engine_calls[j].fresh

\* how often a channel is named in the channel list of an engine call
Occurrences(call, key) ==
  Cardinality({j \in DOMAIN call.u_list : call.u_list[j] = key})

\* the caller of the last advance supplied a required head
CallerSuppliedHead ==
  /\ "Head_required" \in DOMAIN args
  /\ args["Head_required"].t # "none"

\* one value per channel plus the leading timestamp
LengthsMatch(call) ==
  Len(call.u_trajectory) = Len(call.u_list) + 1

\* C37: the composed trajectory of every sub-step names each input channel at
\* most once; in particular, when the caller supplies Head_required, that
\* channel appears exactly once in the channel list handed to the engine,
\* and the channel list and the value vector have matching lengths (one
\* value per channel plus the leading timestamp).
C37_EachChannelAtMostOnce ==
  ComposedAdvance =>
    \A j \in DOMAIN engine_calls :
      /\ \A key \in input_names : Occurrences(engine_calls[j], key) <= 1
      /\ CallerSuppliedHead => Occurrences(engine_calls[j], "Head_required") = 1
      /\ LengthsMatch(engine_calls[j])

\* what holds instead: lengths match and every channel but Head_required is
\* named at most once; Head_required is named once when the caller left it
\* out and twice when the caller supplied it
HeadNamedTwiceWhenSupplied ==
  ComposedAdvance =>
    \A j \in DOMAIN engine_calls :
      /\ LengthsMatch(engine_calls[j])
      /\ \A key \in input_names \ {"Head_required"} :
           Occurrences(engine_calls[j], key) <= 1
      /\ Occurrences(engine_calls[j], "Head_required")
           = IF CallerSuppliedHead THEN 2 ELSE 1

\* an advance whose caller supplied the required head, and one whose caller
\* did not
AdvanceWithCallersHead ==
  ComposedAdvance /\ CallerSuppliedHead

AdvanceWithEstimatedHead ==
  ComposedAdvance /\ ~CallerSuppliedHead /\ Len(engine_calls[1].u_list) > 4

\* C38: in every reachable state all channel histories have the same length:
\* every output history, every input history and both 'time' histories
\* (output store and input store) hold the same number of samples, after
\* any sequence of initialize, advance (successful, rejected or failed),
\* set_step and get_results calls.
C38_HistoriesHaveOneLength ==
  /\ \A key \in YKeys : Len(y_store[key]) = Len(y_store["time"])
  /\ \A key \in UKeys : Len(u_store[key]) = Len(y_store["time"])

\* an advance failed in its second sub-step over a history that already
\* held a sample
C38_Witness ==
  /\ RetryFailed
  /\ Len(sub_steps) = 2
  /\ Len(y_store["time"]) = 1
  /\ Len(u_store["time"]) = 1
  /\ Len(u_store["CHI01"]) = 1

\* C39: the clock never passes the end of the run: in every state reachable
\* after a successful initialize(start_time, end_time), start_time <=
\* current_time <= end_time, so an advance that would move current_time
\* beyond end_time (or beyond MAX_HORIZON when end_time is defaulted) does
\* not succeed.
C39_ClockWithinTheRun ==
  session.valid =>
    /\ session.t0 <= start_time
    /\ start_time <= session.end

\* the run that initialize stored with a positive start_time, passed by a
\* successful advance
AdvancePassedTheEnd ==
  /\ session.valid
  /\ session.t0 > 0
  /\ end_time = session.end
  /\ ret.op = "advance"
  /\ ret.status = 200
  /\ start_time > end_time

\* advance never looks at end_time: with an engine that runs, it moves the
\* clock by step wherever the end of the run is
AdvanceIgnoresTheEnd ==
  [][(ret'.op = "advance" /\ ret'.status = 200) =>
       /\ start_time' = start_time + step
       /\ end_time' = end_time]_vars

\* the lower bound holds for a run started with a positive start_time
ClockNotBeforeTheStart ==
  (session.valid /\ session.t0 > 0) => session.t0 <= start_time

====
